---- MODULE Spec2Model ----
(***************************************************************************)
(* A model of the P2P file-sharing node of src/src/p2p: the file manager   *)
(* (chunk store and manifest registry), the peer manager (session table    *)
(* and availability maps), the protocol session and the download           *)
(* scheduler of P2PNode.                                                   *)
(*                                                                         *)
(* Abstractions.  File contents are sequences of chunks; a chunk's bytes   *)
(* are a natural number (0 is the zero fill of the pre-sized temp file).   *)
(* SHA-256 is an ideal hash: an injective constructor.  Python dicts are   *)
(* functions whose DOMAIN is the set of keys present; Python None / ""     *)
(* for a peer id is the empty string.  The node runs on one asyncio loop,  *)
(* so every handler runs to its next await as one action.  An inbound      *)
(* frame is produced by the remote peer and handled by the node in one     *)
(* action; the frames the node writes and the peer has not yet answered    *)
(* are kept in outQ.                                                       *)
(***************************************************************************)
EXTENDS Naturals, Integers, Sequences, FiniteSets, TLC

\* ------------------------------------------------------------------ bounds
NumChunks == 2          \* chunks of the file small.dat
MaxSessions == 2        \* connections the node opens or accepts in one run
StallCycles == 3        \* poll cycles without progress that count as a stall
MaxShares == 2          \* share_file calls followed for one path
MaxFrames == 3          \* lines a peer sends on one session
MaxAltered == 1         \* file_chunk frames altered in transit on one session
MaxStream == 5          \* bytes a peer sends on one session
MaxRead == 2            \* bytes one read of the socket returns
MaxRecords == 2         \* manifests in the registry of one run

\* ------------------------------------------------------- program constants
CHUNK_SIZE == 262144
MAX_CHUNK_RETRIES == 5
MaxPerCycle == 10
OtherChunkSize == 65536   \* the chunk size of handle_file_request

Peers == {"A", "C"}     \* identifiers of the remote nodes
NoPeer == ""            \* Python None for a peer id

Min(a, b) == IF a < b THEN a ELSE b

\* ------------------------------------------------------------ dict helpers
EmptyDict == << >>
Put(d, k, v) == [x \in (DOMAIN d) \cup {k} |-> IF x = k THEN v ELSE d[x]]
Del(d, k) == [x \in (DOMAIN d) \ {k} |-> d[x]]
Get(d, k, default) == IF k \in DOMAIN d THEN d[k] ELSE default

RECURSIVE SumOver(_, _)
SumOver(f, S) ==
  IF S = {} THEN 0
  ELSE LET x == CHOOSE y \in S : TRUE IN f[x] + SumOver(f, S \ {x})

\* ------------------------------------------------------------------ hashing
\* hashlib.sha256(...).hexdigest(): an ideal (collision-free) hash
Sha256(bytes) == <<"sha256", bytes>>

\* base64.b64encode / b64decode of a chunk
B64Encode(bytes) == <<"b64", bytes>>
B64Valid(raw) == Len(raw) = 2 /\ raw[1] = "b64"
B64Decode(raw) == raw[2]

\* FileManager.calculate_file_hash: SHA-256 over the whole content
calculate_file_hash(content) == Sha256(content)

\* FileManager.calculate_chunk_hashes: digest of every chunk read
calculate_chunk_hashes(content, total_chunks) ==
  [i \in 1..total_chunks |-> Sha256(IF i <= Len(content) THEN content[i] ELSE 0)]

\* ---------------------------------------------------------------- the files
\* hello.txt, a file of one chunk
HelloFile == <<1>>
\* small.dat: chunk i holds the bytes i
SmallFile == [i \in 1..NumChunks |-> i]
\* big.dat: one chunk more than a poll cycle requests
BigFile == [i \in 1..(MaxPerCycle + 1) |-> i]
\* other bytes than the source's for a chunk
Altered(bytes) == bytes + 100

Filename(content) ==
  IF content = BigFile THEN "big.dat"
  ELSE IF content = HelloFile THEN "hello.txt" ELSE "small.dat"

\* paths in the node's download directory (start_download)
TempPath(filename) == <<"downloads", ".part", filename>>
FinalPath(filename) == <<"downloads", filename>>

\* FileManager.add_shared_file: the local record built from a file on disk
LocalRecord(content, path) ==
  [file_hash |-> calculate_file_hash(content),
   filename |-> Filename(content),
   file_size |-> Len(content) * CHUNK_SIZE,
   chunk_size |-> CHUNK_SIZE,
   total_chunks |-> (Len(content) * CHUNK_SIZE + CHUNK_SIZE - 1) \div CHUNK_SIZE,
   piece_hashes |-> calculate_chunk_hashes(content, Len(content)),
   filepath |-> path]

Digests == {calculate_file_hash(HelloFile), calculate_file_hash(SmallFile),
            calculate_file_hash(BigFile)}

VARIABLES
  shared_files,        \* FileManager.shared_files: digest -> record
  downloading_files,   \* FileManager.downloading_files: digest -> download info
  file_metadata,       \* FileManager.file_metadata: digest -> manifest
  disk,                \* the node's download directory: path -> content
  peers,               \* PeerManager.peers: key -> session (protocol instance)
  file_availability,   \* PeerManager.file_availability: digest -> set of peer ids
  chunk_availability,  \* PeerManager.chunk_availability: <<digest, index>> -> set of peer ids
  peer_files,          \* PeerManager.peer_files: peer id -> set of digests
  protocols,           \* the P2PProtocol instances created so far: session -> fields
  connPc,              \* session -> where its connect_to_peer call stands
  outQ,                \* session -> chunk_requests written and not yet answered
  sent,                \* session -> <<digest, index>> -> chunk_request frames written
  remote,              \* peer -> the remote node's shared_files and files on disk
  dl,                  \* the download_file call and its _download_chunks task
  stall,               \* the missing list of the last poll and how long it has stayed the same
  share_calls          \* path -> share_file calls that returned a record

fmVars == <<shared_files, downloading_files, file_metadata, disk>>
pmVars == <<peers, file_availability, chunk_availability, peer_files>>
sessVars == <<protocols, connPc, outQ, sent>>
vars == <<fmVars, pmVars, sessVars, remote, dl, stall, share_calls>>

\* the file manager's state as one value, for the operators below
FM == [shared_files |-> shared_files, downloading_files |-> downloading_files,
       file_metadata |-> file_metadata, disk |-> disk]

\* ------------------------------------------------------------ file manager
Zeros(n) == [i \in 1..n |-> 0]

\* f.seek(index * CHUNK_SIZE); f.write(data) on a file of whole chunks: a
\* write past the end extends the file, the gap reads as zeros
WriteAt(content, chunk_index, data) ==
  LET pos == chunk_index + 1
      n == IF pos > Len(content) THEN pos ELSE Len(content)
  IN [i \in 1..n |-> IF i = pos THEN data
                     ELSE IF i <= Len(content) THEN content[i] ELSE 0]

\* the indices of S in ascending order
RECURSIVE Ascending(_)
Ascending(S) ==
  IF S = {} THEN << >>
  ELSE LET m == CHOOSE x \in S : \A y \in S : x <= y
       IN <<m>> \o Ascending(S \ {m})

\* FileManager.start_download
start_download(fm, file_hash) ==
  IF file_hash \notin DOMAIN fm.file_metadata
  THEN [fm |-> fm, ok |-> FALSE]
  ELSE LET metadata == fm.file_metadata[file_hash]
           temp_path == TempPath(metadata.filename)
           download_path == FinalPath(metadata.filename)
           size == (metadata.file_size + CHUNK_SIZE - 1) \div CHUNK_SIZE
           info == [metadata |-> metadata,
                    temp_path |-> temp_path,
                    final_path |-> download_path,
                    downloaded_chunks |-> {},
                    total_chunks |-> metadata.total_chunks]
       IN [fm |-> [fm EXCEPT !.disk = Put(@, temp_path, Zeros(size)),
                             !.downloading_files = Put(@, file_hash, info)],
           ok |-> TRUE]

\* FileManager.write_chunk
write_chunk(fm, file_hash, chunk_index, data) ==
  LET started == IF file_hash \in DOMAIN fm.downloading_files
                 THEN [fm |-> fm, ok |-> TRUE]
                 ELSE start_download(fm, file_hash)
  IN IF ~started.ok
     THEN [fm |-> fm, ok |-> FALSE]
     ELSE LET fm1 == started.fm
              info == fm1.downloading_files[file_hash]
              written == WriteAt(fm1.disk[info.temp_path], chunk_index, data)
              info2 == [info EXCEPT !.downloaded_chunks = @ \cup {chunk_index}]
          IN [fm |-> [fm1 EXCEPT !.disk = Put(@, info.temp_path, written),
                                 !.downloading_files = Put(@, file_hash, info2)],
              ok |-> TRUE]

\* finalize_download with the comparison of the digests left out
finalize_download_unchecked(fm, file_hash) ==
  LET info == fm.downloading_files[file_hash]
      record == [k \in (DOMAIN info.metadata) \cup {"filepath"} |->
                   IF k = "filepath" THEN info.final_path ELSE info.metadata[k]]
  IN [fm |-> [fm EXCEPT
                !.disk = Del(Put(@, info.final_path, @[info.temp_path]),
                             info.temp_path),
                !.shared_files = Put(@, file_hash, record),
                !.file_metadata = Put(@, file_hash, record),
                !.downloading_files = Del(@, file_hash)],
      outcome |-> "renamed"]

\* finalize_download that promotes the record without the final path
finalize_download_no_path(fm, file_hash) ==
  LET info == fm.downloading_files[file_hash]
      calculated_hash == calculate_file_hash(fm.disk[info.temp_path])
  IN IF calculated_hash = file_hash
     THEN [fm |-> [fm EXCEPT
                     !.disk = Del(Put(@, info.final_path, @[info.temp_path]),
                                  info.temp_path),
                     !.shared_files = Put(@, file_hash, info.metadata),
                     !.downloading_files = Del(@, file_hash)],
           outcome |-> "renamed"]
     ELSE [fm |-> fm, outcome |-> "mismatch"]

\* FileManager.finalize_download.  download_info["metadata"] is the object
\* held in file_metadata, so the filepath assignment shows in both dicts.
finalize_download(fm, file_hash) ==
  LET info == fm.downloading_files[file_hash]
      calculated_hash == calculate_file_hash(fm.disk[info.temp_path])
      record == [k \in (DOMAIN info.metadata) \cup {"filepath"} |->
                   IF k = "filepath" THEN info.final_path ELSE info.metadata[k]]
  IN IF calculated_hash = file_hash
     THEN [fm |-> [fm EXCEPT
                     !.disk = Del(Put(@, info.final_path, @[info.temp_path]),
                                  info.temp_path),
                     !.shared_files = Put(@, file_hash, record),
                     !.file_metadata = Put(@, file_hash, record),
                     !.downloading_files = Del(@, file_hash)],
           outcome |-> "renamed"]
     ELSE [fm |-> fm, outcome |-> "mismatch"]

\* FileManager.is_download_complete
is_download_complete(fm, file_hash) ==
  IF file_hash \notin DOMAIN fm.downloading_files
  THEN [fm |-> fm, result |-> FALSE, finalize |-> "none"]
  ELSE LET info == fm.downloading_files[file_hash]
       IN IF Cardinality(info.downloaded_chunks) = info.total_chunks
          THEN LET fin == finalize_download(fm, file_hash)
               IN [fm |-> fin.fm, result |-> TRUE, finalize |-> fin.outcome]
          ELSE [fm |-> fm, result |-> FALSE, finalize |-> "none"]

\* list(all_chunks - downloaded_chunks), for fewer than 32 chunks.  A list
\* made from a set has the order of the set's hash table; an int hashes to
\* itself.  CPython copies all_chunks and discards when len(all_chunks) >> 2
\* exceeds len(downloaded_chunks); the copy has the table of all_chunks, in
\* which the indices lie in ascending slots.  Otherwise it adds the indices
\* that remain, in the order of all_chunks, to a new set, whose table has
\* SetSlots slots until the fifth key makes it grow: with at most four keys,
\* a key takes slot key mod SetSlots or, if that is taken, the next free slot
\* of the probe sequence i -> 5i + 1.
SetSlots == 8

RECURSIVE Probe(_, _)
Probe(table, i) ==
  IF table[i] = -1 THEN i ELSE Probe(table, (5 * i + 1) % SetSlots)

RECURSIVE InsertAll(_, _)
InsertAll(table, keys) ==
  IF keys = << >> THEN table
  ELSE InsertAll([table EXCEPT ![Probe(table, Head(keys) % SetSlots)] = Head(keys)],
                 Tail(keys))

Occupied(key) == key # -1

ListOfDifference(total_chunks, downloaded_chunks) ==
  LET missing == (0..(total_chunks - 1)) \ downloaded_chunks
      table == InsertAll([i \in 0..(SetSlots - 1) |-> -1], Ascending(missing))
  IN IF (total_chunks \div 4) > Cardinality(downloaded_chunks)
        \/ Cardinality(missing) >= 5
     THEN Ascending(missing)
     ELSE SelectSeq([k \in 1..SetSlots |-> table[k - 1]], Occupied)

\* FileManager.get_missing_chunks: list(range(...)) without a download,
\* list(a set) with one
get_missing_chunks(fm, file_hash) ==
  IF file_hash \notin DOMAIN fm.downloading_files
  THEN IF file_hash \in DOMAIN fm.file_metadata
       THEN Ascending(0..(fm.file_metadata[file_hash].total_chunks - 1))
       ELSE << >>
  ELSE LET info == fm.downloading_files[file_hash]
       IN ListOfDifference(info.total_chunks, info.downloaded_chunks)

\* FileManager.get_available_files: what a handshake advertises
get_available_files(shared) ==
  {[file_hash |-> h,
    filename |-> shared[h].filename,
    file_size |-> shared[h].file_size,
    total_chunks |-> shared[h].total_chunks] : h \in DOMAIN shared}

\* add_remote_file without the test for a record of the digest
add_remote_file_overwriting(fm, metadata) ==
  LET entry == [filename |-> metadata.filename,
                file_hash |-> metadata.file_hash,
                file_size |-> metadata.file_size,
                chunk_size |-> metadata.chunk_size,
                total_chunks |-> metadata.total_chunks,
                piece_hashes |-> metadata.piece_hashes]
  IN [fm EXCEPT !.shared_files = Put(@, metadata.file_hash, entry),
                !.file_metadata = Put(@, metadata.file_hash, entry)]

\* FileManager.add_remote_file, for a FileMetadata object
add_remote_file(fm, metadata) ==
  LET entry == [filename |-> metadata.filename,
                file_hash |-> metadata.file_hash,
                file_size |-> metadata.file_size,
                chunk_size |-> metadata.chunk_size,
                total_chunks |-> metadata.total_chunks,
                piece_hashes |-> metadata.piece_hashes]
  IN IF metadata.file_hash \notin DOMAIN fm.shared_files
     THEN [fm EXCEPT !.shared_files = Put(@, metadata.file_hash, entry),
                     !.file_metadata = Put(@, metadata.file_hash, entry)]
     ELSE fm

\* FileManager.add_shared_file: shared_files and file_metadata hold the same
\* dict object.  (save_metadata writes a cache file that nothing reads back.)
add_shared_file(fm, filepath) ==
  IF filepath \notin DOMAIN fm.disk
  THEN [fm |-> fm, ok |-> FALSE, metadata |-> << >>]
  ELSE LET metadata == LocalRecord(fm.disk[filepath], filepath)
       IN [fm |-> [fm EXCEPT !.shared_files = Put(@, metadata.file_hash, metadata),
                             !.file_metadata = Put(@, metadata.file_hash, metadata)],
           ok |-> TRUE,
           metadata |-> metadata]

\* FileManager.read_chunk on a node whose shared_files is `shared` and whose
\* files on disk are `files` (path -> content); << >> stands for None
read_chunk(shared, files, file_hash, chunk_index) ==
  IF file_hash \notin DOMAIN shared
  THEN << >>
  ELSE LET metadata == shared[file_hash]
           filepath == IF "filepath" \in DOMAIN metadata THEN metadata.filepath ELSE << >>
       IN IF filepath \notin DOMAIN files
          THEN << >>
          ELSE IF chunk_index + 1 \in 1..Len(files[filepath])
               THEN <<files[filepath][chunk_index + 1]>>
               ELSE << >>

\* ------------------------------------------------------------ peer manager
PM == [peers |-> peers, file_availability |-> file_availability,
       chunk_availability |-> chunk_availability, peer_files |-> peer_files]

\* PeerManager.add_peer
add_peer(pm, peer_id, protocol) ==
  [pm EXCEPT !.peers = Put(@, peer_id, protocol)]

\* remove_peer that leaves the availability sets alone
remove_peer_keeps_files(pm, peer_id) ==
  IF peer_id \in DOMAIN pm.peers
  THEN [pm EXCEPT !.peers = Del(@, peer_id)]
  ELSE pm

\* PeerManager.remove_peer
remove_peer(pm, peer_id) ==
  IF peer_id \in DOMAIN pm.peers
  THEN [pm EXCEPT
          !.peers = Del(@, peer_id),
          !.file_availability =
             [h \in DOMAIN @ |->
                IF h \in Get(pm.peer_files, peer_id, {}) THEN @[h] \ {peer_id} ELSE @[h]],
          !.peer_files = Del(@, peer_id)]
  ELSE pm

\* PeerManager.add_peer_file
add_peer_file(pm, peer_id, file_hash) ==
  [pm EXCEPT
     !.peer_files = Put(@, peer_id, Get(@, peer_id, {}) \cup {file_hash}),
     !.file_availability = Put(@, file_hash, Get(@, file_hash, {}) \cup {peer_id})]

\* PeerManager.add_peer_chunk
add_peer_chunk(pm, peer_id, file_hash, chunk_index) ==
  [pm EXCEPT !.chunk_availability =
     Put(@, <<file_hash, chunk_index>>, Get(@, <<file_hash, chunk_index>>, {}) \cup {peer_id})]

\* PeerManager.get_peers_with_file / get_peers_with_chunk, as sets
get_peers_with_file(pm, file_hash) == Get(pm.file_availability, file_hash, {})
get_peers_with_chunk(pm, file_hash, chunk_index) ==
  Get(pm.chunk_availability, <<file_hash, chunk_index>>, {})

\* get_best_peer_for_chunk that looks at the peers with the file first
get_best_peer_for_chunk_file_first(pm, file_hash, chunk_index, first) ==
  LET withFile == get_peers_with_file(pm, file_hash)
      found == IF withFile # {} THEN withFile
               ELSE get_peers_with_chunk(pm, file_hash, chunk_index)
  IN IF found = {} THEN NoPeer
     ELSE IF first \in found THEN first
     ELSE CHOOSE x \in found : TRUE

\* PeerManager.get_best_peer_for_chunk returns peers[0] of list(a set): the
\* set's iteration order is not specified, so `first` names the peer id that
\* the order puts first among those present.  NoPeer stands for None.
get_best_peer_for_chunk(pm, file_hash, chunk_index, first) ==
  LET withChunk == get_peers_with_chunk(pm, file_hash, chunk_index)
      found == IF withChunk # {} THEN withChunk ELSE get_peers_with_file(pm, file_hash)
  IN IF found = {} THEN NoPeer
     ELSE IF first \in found THEN first
     ELSE CHOOSE x \in found : TRUE

\* --------------------------------------------------------- protocol session
\* P2PProtocol.__init__, then connection_made: the transport is attached and
\* send_handshake writes the first handshake.  Besides the fields of the
\* object the record keeps the history of the session: the bytes received,
\* the lines passed to handle_message, the answers written to chunk_requests
\* and pings, the number of handshake and file_announce frames written, and
\* the chunk indices whose file_chunk frame arrived altered in transit.
NewProtocol(host) ==
  [transport |-> "open",
   host |-> host,
   remote_peer_id |-> NoPeer,
   buffer |-> << >>,
   handshake_done |-> FALSE,
   handshake_replied |-> FALSE,
   handshakes_sent |-> 1,
   announces_sent |-> 0,
   retry_counts |-> EmptyDict,
   received |-> << >>,
   handled |-> << >>,
   written |-> << >>,
   altered |-> << >>]

\* the key connect_to_peer registers a session under when the wait runs out
TempKey(host) == IF host = "A" THEN "hostA:port" ELSE "hostC:port"

RetryKey(file_hash, chunk_index) == <<file_hash, chunk_index>>

\* the counter of request_chunk grows without bound; every value above
\* MAX_CHUNK_RETRIES behaves alike, so it is kept at most one above it
Saturate(n) == Min(n, MAX_CHUNK_RETRIES + 1)

\* request_chunk without the comparison with MAX_CHUNK_RETRIES
request_chunk_uncapped(ss, s, file_hash, chunk_index) ==
  LET key == RetryKey(file_hash, chunk_index)
      count == Saturate(Get(ss.protocols[s].retry_counts, key, 0) + 1)
      counted == [ss EXCEPT !.protocols[s].retry_counts = Put(@, key, count)]
  IN IF ss.protocols[s].transport = "open"
     THEN [counted EXCEPT
             !.outQ[s] = Append(@, [file_hash |-> file_hash, chunk_index |-> chunk_index]),
             !.sent[s] = Put(@, key, Get(@, key, 0) + 1)]
     ELSE counted

\* P2PProtocol.request_chunk on session s, given the sessions' state
\* ss = [protocols, outQ, sent]; send_message writes only on an open transport
request_chunk(ss, s, file_hash, chunk_index) ==
  LET key == RetryKey(file_hash, chunk_index)
      count == Saturate(Get(ss.protocols[s].retry_counts, key, 0) + 1)
      counted == [ss EXCEPT !.protocols[s].retry_counts = Put(@, key, count)]
  IN IF count > MAX_CHUNK_RETRIES
     THEN counted
     ELSE IF ss.protocols[s].transport = "open"
          THEN [counted EXCEPT
                  !.outQ[s] = Append(@, [file_hash |-> file_hash, chunk_index |-> chunk_index]),
                  !.sent[s] = Put(@, key, Get(@, key, 0) + 1)]
          ELSE counted

SS == [protocols |-> protocols, outQ |-> outQ, sent |-> sent]

\* the node's state as one value: file manager, peer manager, sessions
Node == [fm |-> FM, pm |-> PM, ss |-> SS]

\* P2PProtocol.send_handshake on session s (send_message writes only on an
\* open transport)
send_handshake(ss, s) ==
  IF ss.protocols[s].transport = "open"
  THEN [ss EXCEPT !.protocols[s].handshakes_sent = @ + 1]
  ELSE ss

\* the fields a manifest needs, and the fields of the dataclass FileMetadata
RequiredFields == {"file_hash", "filename", "file_size", "total_chunks"}
ManifestFields == RequiredFields \cup {"chunk_size", "piece_hashes"}

\* FileMetadata(**f) raises TypeError when a field without default is missing
\* or a key is not a field
FileMetadataAccepts(f) ==
  RequiredFields \subseteq DOMAIN f /\ DOMAIN f \subseteq ManifestFields

\* FileMetadata(**f): chunk_size and piece_hashes have defaults
FileMetadata(f) ==
  [file_hash |-> f.file_hash,
   filename |-> f.filename,
   file_size |-> f.file_size,
   total_chunks |-> f.total_chunks,
   chunk_size |-> IF "chunk_size" \in DOMAIN f THEN f.chunk_size ELSE CHUNK_SIZE,
   piece_hashes |-> IF "piece_hashes" \in DOMAIN f THEN f.piece_hashes ELSE << >>]

\* the loop of handle_handshake over payload["files"]: entries without the
\* required keys are skipped, setdefault of piece_hashes and chunk_size,
\* FileMetadata(**f), add_peer_file, add_remote_file
RECURSIVE RegisterFiles(_, _, _)
RegisterFiles(n, peer_id, files) ==
  IF files = {} THEN n
  ELSE LET f == CHOOSE x \in files : TRUE
           n2 == IF FileMetadataAccepts(f)
                 THEN [n EXCEPT !.pm = add_peer_file(@, peer_id, f.file_hash),
                                !.fm = add_remote_file(@, FileMetadata(f))]
                 ELSE n
       IN RegisterFiles(n2, peer_id, files \ {f})

\* P2PProtocol.handle_handshake
handle_handshake(n, s, peer_id, payload) ==
  LET n1 == RegisterFiles(n, peer_id, payload.files)
      n2 == [n1 EXCEPT !.ss.protocols[s].handshake_done = TRUE]
  IN IF ~n2.ss.protocols[s].handshake_replied
     THEN [n2 EXCEPT !.ss = send_handshake([@ EXCEPT !.protocols[s].handshake_replied = TRUE], s)]
     ELSE n2

\* handle_file_chunk without the comparison of the digest of the data with
\* chunk_hash
handle_file_chunk_unverified(n, payload) ==
  IF payload.data = << >> THEN n
  ELSE IF ~B64Valid(payload.data) THEN n
  ELSE LET data == B64Decode(payload.data)
           w == write_chunk(n.fm, payload.file_hash, payload.chunk_index, data)
       IN [n EXCEPT !.fm = is_download_complete(w.fm, payload.file_hash).fm]

\* P2PProtocol.handle_file_chunk
handle_file_chunk(n, payload) ==
  IF payload.data = << >> THEN n
  ELSE IF ~B64Valid(payload.data) THEN n
  ELSE LET data == B64Decode(payload.data)
       IN IF Sha256(data) # payload.chunk_hash THEN n
          ELSE LET w == write_chunk(n.fm, payload.file_hash, payload.chunk_index, data)
               IN [n EXCEPT !.fm = is_download_complete(w.fm, payload.file_hash).fm]

\* an announce_file that writes two file_announce frames
announce_file_twice(ss, s, file_meta) ==
  IF ss.protocols[s].transport = "open"
  THEN [ss EXCEPT !.protocols[s].announces_sent = @ + 2]
  ELSE ss

\* protocol.announce_file(file_meta) as share_file calls it: P2PProtocol
\* defines no method of that name, the call raises AttributeError, which the
\* try/except around it swallows; no frame is written
announce_file(ss, s, file_meta) == ss

\* the loop of share_file over peer_manager.peers.items()
RECURSIVE AnnounceToAll(_, _, _, _)
AnnounceToAll(ss, table, keys, file_meta) ==
  IF keys = {} THEN ss
  ELSE LET key == CHOOSE x \in keys : TRUE
       IN AnnounceToAll(announce_file(ss, table[key], file_meta), table,
                        keys \ {key}, file_meta)

\* P2PNode.share_file.  metadata.pop("filepath") acts on the dict object that
\* add_shared_file has just stored in shared_files and file_metadata.
share_file(n, filepath) ==
  LET added == add_shared_file(n.fm, filepath)
  IN IF ~added.ok
     THEN [n |-> n, ok |-> FALSE]
     ELSE LET metadata == [k \in (DOMAIN added.metadata) \ {"filepath"} |->
                             added.metadata[k]]
              file_hash == metadata.file_hash
          IN [n |-> [n EXCEPT
                       !.fm = [added.fm EXCEPT
                                 !.shared_files = Put(@, file_hash, metadata),
                                 !.file_metadata = Put(@, file_hash, metadata)],
                       !.ss = AnnounceToAll(@, n.pm.peers, DOMAIN n.pm.peers, metadata)],
              ok |-> TRUE]

\* P2PProtocol.handle_file_announce
handle_file_announce(n, peer_id, payload) ==
  IF FileMetadataAccepts(payload)
  THEN [n EXCEPT !.pm = add_peer_file(@, peer_id, payload.file_hash),
                 !.fm = add_remote_file(@, FileMetadata(payload))]
  ELSE n

\* the head of P2PProtocol.handle_message: the first frame of any type sets
\* remote_peer_id and registers the session
RegisterSender(n, s, peer_id) ==
  IF n.ss.protocols[s].remote_peer_id = NoPeer
  THEN [n EXCEPT !.ss.protocols[s].remote_peer_id = peer_id,
                 !.pm = add_peer(@, peer_id, s)]
  ELSE n

\* P2PProtocol.handle_chunk_request on the remote node: the frame it answers
\* a chunk_request with
ChunkResponse(peer, request) ==
  LET chunk_data == read_chunk(remote[peer].shared_files, remote[peer].files,
                               request.file_hash, request.chunk_index)
  IN IF chunk_data # << >>
     THEN [type |-> "file_chunk", peer_id |-> peer,
           payload |-> [file_hash |-> request.file_hash,
                        chunk_index |-> request.chunk_index,
                        data |-> B64Encode(chunk_data[1]),
                        chunk_hash |-> Sha256(chunk_data[1])]]
     ELSE [type |-> "chunk_not_found", peer_id |-> peer,
           payload |-> [file_hash |-> request.file_hash,
                        chunk_index |-> request.chunk_index]]

\* ------------------------------------------------------ frames on the wire
\* the values of the enum MessageType
MessageTypes ==
  {"handshake", "file_announce", "file_request", "file_chunk", "chunk_request",
   "chunk_not_found", "peer_list", "have", "interested", "not_interested",
   "ping", "pong"}

\* The bytes of a stream: the newline, a byte that is part of no frame, and
\* the two halves of the text of a frame (json.dumps(message).encode(), cut
\* anywhere inside).
Newline == [byte |-> "\n"]
Junk == [byte |-> "x"]
Text(message) == <<[head |-> message], [tail |-> message]>>

\* json.loads(raw.decode()) succeeds on the text of a frame and raises on
\* any other line
JsonValid(raw) ==
  /\ Len(raw) = 2
  /\ DOMAIN raw[1] = {"head"}
  /\ DOMAIN raw[2] = {"tail"}
  /\ raw[1].head = raw[2].tail
json_loads(raw) == raw[1].head

\* P2PProtocol.send_message of an answer on session s: written only on an
\* open transport
send_message(ss, s, type, payload) ==
  IF ss.protocols[s].transport = "open"
  THEN [ss EXCEPT !.protocols[s].written =
          Append(@, [type |-> type, payload |-> payload])]
  ELSE ss

\* handle_chunk_request that writes nothing when no chunk was read
handle_chunk_request_silent(n, s, peer_id, payload) ==
  LET file_hash == Get(payload, "file_hash", << >>)
      chunk_index == Get(payload, "chunk_index", << >>)
      chunk_data == IF "chunk_index" \notin DOMAIN payload THEN << >>
                    ELSE read_chunk(n.fm.shared_files, n.fm.disk, file_hash, chunk_index)
  IN IF chunk_data # << >>
     THEN [n EXCEPT !.ss = send_message(@, s, "file_chunk",
                      [file_hash |-> file_hash, chunk_index |-> chunk_index,
                       data |-> B64Encode(chunk_data[1]),
                       chunk_hash |-> Sha256(chunk_data[1])])]
     ELSE n

\* P2PProtocol.handle_chunk_request on the node: read_chunk, then a
\* file_chunk frame, or chunk_not_found when nothing was read
handle_chunk_request(n, s, peer_id, payload) ==
  LET file_hash == Get(payload, "file_hash", << >>)
      chunk_index == Get(payload, "chunk_index", << >>)
      chunk_data == IF "chunk_index" \notin DOMAIN payload THEN << >>
                    ELSE read_chunk(n.fm.shared_files, n.fm.disk, file_hash, chunk_index)
  IN IF chunk_data # << >>
     THEN [n EXCEPT !.ss = send_message(@, s, "file_chunk",
                      [file_hash |-> file_hash, chunk_index |-> chunk_index,
                       data |-> B64Encode(chunk_data[1]),
                       chunk_hash |-> Sha256(chunk_data[1])])]
     ELSE [n EXCEPT !.ss = send_message(@, s, "chunk_not_found",
                      [file_hash |-> file_hash, chunk_index |-> chunk_index])]

\* P2PProtocol.handle_ping
handle_ping(n, s) == [n EXCEPT !.ss = send_message(@, s, "pong", EmptyDict)]

\* payload.get(key) of handle_file_chunk for each of its four keys
ChunkFields(payload) ==
  [k \in {"file_hash", "chunk_index", "data", "chunk_hash"} |-> Get(payload, k, << >>)]

\* P2PProtocol.handle_message.  json.loads, MessageType(...) and the three
\* subscripts raise before anything is changed; after them the sender is
\* registered, then the handler of the type runs, if there is one
\* (handle_file_request is a coroutine function: the call creates a coroutine
\* that is never run; have, peer_list, interested, not_interested have no
\* handler; handle_chunk_not_found and handle_pong only print).
handle_message(n, s, raw) ==
  IF ~JsonValid(raw) THEN n
  ELSE LET message == json_loads(raw)
       IN IF ~({"type", "peer_id", "payload"} \subseteq DOMAIN message) THEN n
          ELSE IF message.type \notin MessageTypes THEN n
          ELSE LET peer_id == message.peer_id
                   payload == message.payload
                   n1 == RegisterSender(n, s, peer_id)
               IN CASE message.type = "handshake" ->
                         handle_handshake(n1, s, peer_id, [files |-> Get(payload, "files", {})])
                    [] message.type = "file_announce" ->
                         handle_file_announce(n1, peer_id, payload)
                    [] message.type = "chunk_request" ->
                         handle_chunk_request(n1, s, peer_id, payload)
                    [] message.type = "file_chunk" ->
                         handle_file_chunk(n1, ChunkFields(payload))
                    [] message.type = "ping" -> handle_ping(n1, s)
                    [] OTHER -> n1

\* the while loop of P2PProtocol.data_received over the lines of the buffer;
\* an empty line is skipped, an exception of handle_message is caught
RECURSIVE SplitLines(_, _, _)
SplitLines(n, s, buffer) ==
  IF \E i \in 1..Len(buffer) : buffer[i] = Newline
  THEN LET i == CHOOSE k \in 1..Len(buffer) :
                  buffer[k] = Newline /\ \A j \in 1..(k - 1) : buffer[j] # Newline
           line == SubSeq(buffer, 1, i - 1)
           rest == SubSeq(buffer, i + 1, Len(buffer))
           n1 == IF line = << >> THEN n
                 ELSE handle_message(
                        [n EXCEPT !.ss.protocols[s].handled = Append(@, line)], s, line)
       IN SplitLines(n1, s, rest)
  ELSE [n EXCEPT !.ss.protocols[s].buffer = buffer]

\* data_received that splits what was just read and forgets the buffer
data_received_unbuffered(n, s, data) ==
  SplitLines([n EXCEPT !.ss.protocols[s].received = @ \o data], s, data)

\* P2PProtocol.data_received
data_received(n, s, data) ==
  SplitLines([n EXCEPT !.ss.protocols[s].received = @ \o data], s,
             n.ss.protocols[s].buffer \o data)

\* assign the node's variables from a node value
SetNode(n) ==
  /\ shared_files' = n.fm.shared_files
  /\ downloading_files' = n.fm.downloading_files
  /\ file_metadata' = n.fm.file_metadata
  /\ disk' = n.fm.disk
  /\ peers' = n.pm.peers
  /\ file_availability' = n.pm.file_availability
  /\ chunk_availability' = n.pm.chunk_availability
  /\ peer_files' = n.pm.peer_files
  /\ protocols' = n.ss.protocols
  /\ outQ' = n.ss.outQ
  /\ sent' = n.ss.sent

Sessions == 1..MaxSessions
Live(s) == s \in DOMAIN protocols /\ protocols[s].transport = "open"

\* --------------------------------------------------------------- the peers
SourcePath(content) == <<"shared", Filename(content)>>

\* a remote node that shared the file from its own disk (add_shared_file)
Seeder(content) ==
  [shared_files |-> Put(EmptyDict, calculate_file_hash(content),
                        LocalRecord(content, SourcePath(content))),
   files |-> Put(EmptyDict, SourcePath(content), content)]

\* a remote node that only learned the file from another peer's handshake
\* (add_remote_file puts the record, without a path, into shared_files too)
Relay(content) ==
  [shared_files |-> add_remote_file(
       [shared_files |-> EmptyDict, file_metadata |-> EmptyDict],
       [LocalRecord(content, << >>) EXCEPT !.piece_hashes = << >>]).shared_files,
   files |-> EmptyDict]

\* ------------------------------------------------------------------- Init
IdleDownload == [pc |-> "idle", file_hash |-> << >>, result |-> FALSE]
NoStall == [prev_missing |-> << >>, same_polls |-> 0, tick |-> 0]

NodeInit ==
  /\ shared_files = EmptyDict
  /\ downloading_files = EmptyDict
  /\ file_metadata = EmptyDict
  /\ disk = EmptyDict
  /\ peers = EmptyDict
  /\ file_availability = EmptyDict
  /\ chunk_availability = EmptyDict
  /\ peer_files = EmptyDict
  /\ protocols = EmptyDict
  /\ connPc = EmptyDict
  /\ outQ = EmptyDict
  /\ sent = EmptyDict
  /\ dl = IdleDownload
  /\ stall = NoStall
  /\ share_calls = EmptyDict

\* peer A shares the file from its disk; peer C has learned it from A
Sharing(content) ==
  [peer \in Peers |-> IF peer = "A" THEN Seeder(content) ELSE Relay(content)]

Init ==
  /\ NodeInit
  /\ remote = Sharing(HelloFile)

\* ---------------------------------------------------------------- actions
NextSession == Cardinality(DOMAIN protocols) + 1

OpenSession(host, pc) ==
  /\ NextSession <= MaxSessions
  /\ protocols' = Put(protocols, NextSession, NewProtocol(host))
  /\ connPc' = Put(connPc, NextSession, pc)
  /\ outQ' = Put(outQ, NextSession, << >>)
  /\ sent' = Put(sent, NextSession, EmptyDict)
  /\ UNCHANGED <<fmVars, pmVars, remote, dl, stall, share_calls>>

\* P2PNode.connect_to_peer up to its first sleep
ConnectToPeer(host) == OpenSession(host, "waiting")

\* P2PNode._handle_connection up to its first read
AcceptConnection(host) == OpenSession(host, "inbound")

\* connect_to_peer's wait loop sees remote_peer_id and returns the protocol
ConnectReturns(s) ==
  /\ s \in DOMAIN protocols
  /\ connPc[s] = "waiting"
  /\ protocols[s].remote_peer_id # NoPeer
  /\ peers' = IF protocols[s].remote_peer_id \notin DOMAIN peers
              THEN add_peer(PM, protocols[s].remote_peer_id, s).peers
              ELSE peers
  /\ connPc' = [connPc EXCEPT ![s] = "returned"]
  /\ UNCHANGED <<fmVars, file_availability, chunk_availability, peer_files,
                 protocols, outQ, sent, remote, dl, stall, share_calls>>

\* connect_to_peer's wait runs out: the protocol is registered under host:port
ConnectWaitExpires(s) ==
  /\ s \in DOMAIN protocols
  /\ connPc[s] = "waiting"
  /\ protocols[s].remote_peer_id = NoPeer
  /\ peers' = IF TempKey(protocols[s].host) \notin DOMAIN peers
              THEN add_peer(PM, TempKey(protocols[s].host), s).peers
              ELSE peers
  /\ connPc' = [connPc EXCEPT ![s] = "returned"]
  /\ UNCHANGED <<fmVars, file_availability, chunk_availability, peer_files,
                 protocols, outQ, sent, remote, dl, stall, share_calls>>

\* P2PProtocol._wait_for_handshake times out: transport.close()
HandshakeTimeout(s) ==
  /\ Live(s)
  /\ ~protocols[s].handshake_done
  /\ protocols' = [protocols EXCEPT ![s].transport = "closing"]
  /\ UNCHANGED <<fmVars, pmVars, connPc, outQ, sent, remote, dl, stall, share_calls>>

\* the read loop ends (the peer went away, or the transport was closed):
\* P2PProtocol.connection_lost; requests in flight die with the socket
ConnectionLost(s) ==
  /\ s \in DOMAIN protocols
  /\ protocols[s].transport \in {"open", "closing"}
  /\ LET pm2 == IF protocols[s].remote_peer_id # NoPeer
                THEN remove_peer(PM, protocols[s].remote_peer_id)
                ELSE PM
     IN SetNode([Node EXCEPT !.pm = pm2,
                             !.ss.protocols[s].transport = "lost",
                             !.ss.outQ[s] = << >>])
  /\ UNCHANGED <<connPc, remote, dl, stall, share_calls>>

\* a handshake of the peer arrives: handle_message, handle_handshake.  (A peer
\* running this code sends one at connection_made and one in reply to ours.)
ReceiveHandshake(s) ==
  /\ Live(s)
  /\ LET host == protocols[s].host
         payload == [files |-> get_available_files(remote[host].shared_files)]
     IN SetNode(handle_handshake(RegisterSender(Node, s, host), s, host, payload))
  /\ UNCHANGED <<connPc, remote, dl, stall, share_calls>>

\* the peer answers the oldest chunk_request on s and the answer arrives:
\* handle_message, then handle_file_chunk or handle_chunk_not_found
ReceiveChunkResponse(s) ==
  /\ Live(s)
  /\ outQ[s] # << >>
  /\ LET frame == ChunkResponse(protocols[s].host, Head(outQ[s]))
         n1 == RegisterSender([Node EXCEPT !.ss.outQ[s] = Tail(@)], s, frame.peer_id)
     IN IF frame.type = "file_chunk"
        THEN SetNode(handle_file_chunk(n1, frame.payload))
        ELSE SetNode(n1)
  /\ UNCHANGED <<connPc, remote, dl, stall, share_calls>>

\* download_file that starts its scheduler task without looking for the manifest
DownloadFileUnchecked(file_hash) ==
  /\ dl.pc = "idle"
  /\ dl' = [dl EXCEPT !.pc = "running", !.file_hash = file_hash]
  /\ UNCHANGED <<fmVars, pmVars, sessVars, remote, stall, share_calls>>

\* P2PNode.download_file up to `await task`
DownloadFile(file_hash) ==
  /\ dl.pc = "idle"
  /\ IF file_hash \notin DOMAIN file_metadata
     THEN /\ dl' = [dl EXCEPT !.pc = "returned", !.file_hash = file_hash, !.result = FALSE]
          /\ UNCHANGED fmVars
     ELSE LET started == start_download(FM, file_hash)
          IN /\ shared_files' = started.fm.shared_files
             /\ downloading_files' = started.fm.downloading_files
             /\ file_metadata' = started.fm.file_metadata
             /\ disk' = started.fm.disk
             /\ dl' = IF started.ok
                      THEN [dl EXCEPT !.pc = "running", !.file_hash = file_hash]
                      ELSE [dl EXCEPT !.pc = "returned", !.file_hash = file_hash,
                                      !.result = FALSE]
  /\ UNCHANGED <<pmVars, sessVars, remote, stall, share_calls>>

\* the for loop of P2PNode._download_chunks over missing_chunks[:10]
RECURSIVE RequestChunks(_, _, _, _, _)
RequestChunks(acc, pm, file_hash, chunks, first) ==
  IF chunks = << >> THEN acc
  ELSE LET chunk_index == Head(chunks)
           peer_id == get_best_peer_for_chunk(pm, file_hash, chunk_index, first)
           acc2 == IF peer_id # NoPeer /\ peer_id \in DOMAIN pm.peers
                   THEN [ss |-> request_chunk(acc.ss, pm.peers[peer_id], file_hash, chunk_index),
                         requested_count |-> acc.requested_count + 1]
                   ELSE acc
       IN RequestChunks(acc2, pm, file_hash, Tail(chunks), first)

\* the missing list without the slice
WholeList(missing_chunks) == missing_chunks

\* missing_chunks[:10]
FirstChunks(missing_chunks) ==
  SubSeq(missing_chunks, 1, Min(MaxPerCycle, Len(missing_chunks)))

QueuedOn(q) == SumOver([s \in DOMAIN q |-> Len(q[s])], DOMAIN q)

\* one iteration of the while loop of P2PNode._download_chunks, up to its
\* sleep; on an empty missing list the task ends and download_file returns True
DownloadChunks ==
  /\ dl.pc = "running"
  /\ LET missing_chunks == get_missing_chunks(FM, dl.file_hash)
     IN IF missing_chunks = << >>
        THEN /\ dl' = [dl EXCEPT !.pc = "returned", !.result = TRUE]
             /\ UNCHANGED sessVars
        ELSE \E first \in Peers :
               LET done == RequestChunks([ss |-> SS, requested_count |-> 0], PM,
                                         dl.file_hash, FirstChunks(missing_chunks), first)
               IN /\ protocols' = done.ss.protocols
                  /\ outQ' = done.ss.outQ
                  /\ sent' = done.ss.sent
                  /\ UNCHANGED connPc
                  /\ UNCHANGED dl
  /\ UNCHANGED <<fmVars, pmVars, remote, share_calls>>

\* the observer of a poll cycle: how many cycles in a row saw the same
\* missing list, and the parity of the number of cycles run
ObserveStall ==
  LET missing_chunks == get_missing_chunks(FM, dl.file_hash)
  IN stall' = [prev_missing |-> missing_chunks,
               same_polls |-> IF missing_chunks = stall.prev_missing
                              THEN Min(stall.same_polls + 1, StallCycles) ELSE 0,
               tick |-> 1 - stall.tick]

\* the transfer engine end to end: connections, handshakes, one download
Next ==
  \/ \E host \in Peers : ConnectToPeer(host)
  \/ \E s \in Sessions : ConnectionLost(s)
  \/ \E s \in Sessions : ReceiveHandshake(s)
  \/ \E s \in Sessions : ReceiveChunkResponse(s)
  \/ \E file_hash \in Digests : DownloadFile(file_hash)
  \/ DownloadChunks /\ UNCHANGED stall

Spec == Init /\ [][Next]_vars

\* the (digest, index) pairs a chunk_request can name
RetryKeys ==
  {RetryKey(calculate_file_hash(content), chunk_index) :
     content \in {HelloFile, SmallFile, BigFile}, chunk_index \in 0..MaxPerCycle}

\* chunk_request frames written for a (digest, index) on all sessions so far
SentOverall(key) ==
  SumOver([s \in DOMAIN sent |-> Get(sent[s], key, 0)], DOMAIN sent)

\* C7 as stated: for every (digest, index) the chunk_request frames sent for
\* it, summed over all sessions, never exceed the cap of five.
RetryCapAcrossSessions ==
  \A key \in RetryKeys : SentOverall(key) <= MAX_CHUNK_RETRIES

\* C7, amended: on each session, at most five chunk_request frames are sent
\* for the same (digest, index).
RetryCapPerSession ==
  \A s \in DOMAIN sent : \A key \in DOMAIN sent[s] :
    sent[s][key] <= MAX_CHUNK_RETRIES

\* a session has sent its five requests for a chunk and request_chunk has
\* been called for it once more without writing a frame
RetryCapReached ==
  \E s \in DOMAIN sent : \E key \in DOMAIN sent[s] :
    /\ sent[s][key] = MAX_CHUNK_RETRIES
    /\ protocols[s].retry_counts[key] > MAX_CHUNK_RETRIES

\* C13: download_file(D) for a digest D without a manifest in the registry
\* returns False at once and changes nothing: no download state, no temp
\* file, no scheduler task, no frame written on any session.
UnknownDigestFailsClean ==
  [][\A file_hash \in Digests :
       (file_hash \notin DOMAIN file_metadata /\ DownloadFile(file_hash)) =>
         /\ dl'.pc = "returned"
         /\ dl'.result = FALSE
         /\ UNCHANGED <<fmVars, pmVars, sessVars>>]_vars

\* download_file has returned False for a digest that has no manifest, while
\* a session was live on which nothing has been requested
UnknownDigestRefused ==
  /\ dl.pc = "returned"
  /\ dl.result = FALSE
  /\ dl.file_hash \notin DOMAIN file_metadata
  /\ downloading_files = EmptyDict
  /\ disk = EmptyDict
  /\ \E s \in DOMAIN protocols : Live(s) /\ sent[s] = EmptyDict

\* a manifest whose counts agree: one piece hash per chunk, the chunk count
\* of the file size, the chunk size of the system
WellFormed(manifest) ==
  /\ Len(manifest.piece_hashes) = manifest.total_chunks
  /\ manifest.total_chunks = (manifest.file_size + CHUNK_SIZE - 1) \div CHUNK_SIZE
  /\ manifest.chunk_size = CHUNK_SIZE

\* C16: every manifest in the registry, those registered from a peer's
\* handshake or file_announce included, has len(piece_hashes) = total_chunks,
\* total_chunks = ceil(file_size / 262144) and chunk_size = 262144.
ManifestsWellFormed ==
  /\ \A file_hash \in DOMAIN file_metadata : WellFormed(file_metadata[file_hash])
  /\ \A file_hash \in DOMAIN shared_files : WellFormed(shared_files[file_hash])

\* C26: every manifest listed in a handshake the node writes (the one of
\* connection_made and the reply to the peer's) is of a file the node shares
\* from its disk: its record has a path.  Manifests learned from peers are not
\* listed.
HandshakeListsLocalOnly ==
  [][\A s \in Sessions :
       ( /\ s \in DOMAIN protocols'
         /\ \/ s \notin DOMAIN protocols
            \/ protocols'[s].handshakes_sent > protocols[s].handshakes_sent ) =>
         \A f \in get_available_files(shared_files') :
           "filepath" \in DOMAIN shared_files'[f.file_hash]]_vars

\* ------------------------------------------------------- sharing a file
\* Files appear on the node's disk, the user shares them (more than once),
\* while connections to the peers open, shake hands and go away.
CreateFile(content) ==
  /\ SourcePath(content) \notin DOMAIN disk
  /\ disk' = Put(disk, SourcePath(content), content)
  /\ UNCHANGED <<shared_files, downloading_files, file_metadata, pmVars,
                 sessVars, remote, dl, stall, share_calls>>

ShareFile(filepath) ==
  /\ Get(share_calls, filepath, 0) < MaxShares
  /\ LET shared == share_file(Node, filepath)
     IN /\ SetNode(shared.n)
        /\ share_calls' = IF shared.ok
                          THEN Put(share_calls, filepath, Get(share_calls, filepath, 0) + 1)
                          ELSE share_calls
  /\ UNCHANGED <<connPc, remote, dl, stall>>

LocalFiles == {HelloFile, SmallFile}

ShareInit ==
  /\ NodeInit
  /\ remote = Sharing(HelloFile)

ShareNext ==
  \/ \E content \in LocalFiles : CreateFile(content)
  \/ \E content \in LocalFiles : ShareFile(SourcePath(content))
  \/ \E host \in Peers : ConnectToPeer(host)
  \/ \E s \in Sessions : ReceiveHandshake(s)
  \/ \E s \in Sessions : ConnectWaitExpires(s)
  \/ \E s \in Sessions : ConnectionLost(s)

ShareSpec == ShareInit /\ [][ShareNext]_vars

\* a session that is open and registered in the session table
Registered(s) ==
  /\ Live(s)
  /\ \E key \in DOMAIN peers : peers[key] = s

\* C14: when share_file(path) succeeds, a file_announce frame has been
\* written to every session that is live at the call.
ShareAnnouncesToAll ==
  [][\A content \in LocalFiles :
       (SourcePath(content) \in DOMAIN disk /\ ShareFile(SourcePath(content))) =>
         \A s \in Sessions :
           Registered(s) =>
             protocols'[s].announces_sent = protocols[s].announces_sent + 1]_vars

\* C15: a second share_file of the same path leaves exactly one registry
\* entry for the file's digest, the record the first call left (the registry
\* is unchanged by the second call), and every share_file call writes at most
\* one file_announce frame to each session.
ShareTwiceOneEntry ==
  [][\A content \in LocalFiles :
       ShareFile(SourcePath(content)) =>
         /\ \A s \in DOMAIN protocols :
              protocols'[s].announces_sent <= protocols[s].announces_sent + 1
         /\ Get(share_calls, SourcePath(content), 0) >= 1 =>
              /\ calculate_file_hash(content) \in DOMAIN shared_files
              /\ shared_files' = shared_files
              /\ file_metadata' = file_metadata]_vars

\* the same path has been shared twice with a registered session open, and
\* the registry holds the one record of its digest
SharedTwice ==
  \E content \in LocalFiles :
    /\ Get(share_calls, SourcePath(content), 0) = 2
    /\ calculate_file_hash(content) \in DOMAIN shared_files
    /\ shared_files[calculate_file_hash(content)].piece_hashes
         = calculate_chunk_hashes(content, Len(content))
    /\ \E s \in Sessions : Registered(s)

\* ------------------------------------------------- the chunk store by itself
\* The FileManager driven through its own entry points and through inbound
\* file_chunk frames, with every argument a caller or a peer can supply.
SetFM(fm) ==
  /\ shared_files' = fm.shared_files
  /\ downloading_files' = fm.downloading_files
  /\ file_metadata' = fm.file_metadata
  /\ disk' = fm.disk

\* the files the store is asked to download
StoreFiles == {HelloFile, SmallFile}

\* the manifest of a file as a handshake carries it (get_available_files
\* sends no piece_hashes, handle_handshake fills in the defaults) and as a
\* file_announce frame carries it (FileMetadata with piece_hashes)
HandshakeManifest(content) ==
  [LocalRecord(content, << >>) EXCEPT !.piece_hashes = << >>]
AnnouncedManifest(content) == LocalRecord(content, << >>)

\* what a caller or a peer may supply as chunk chunk_index of a file: the
\* source's bytes or others; the index may lie past the last chunk
ChunkData(content, chunk_index) ==
  IF chunk_index < Len(content)
  THEN {content[chunk_index + 1], Altered(content[chunk_index + 1])}
  ELSE {Altered(0)}

\* the file_chunk payloads a peer can send for a file: well formed, without
\* data, not base64, and with a chunk_hash of other bytes
ChunkFrames(content) ==
  {[file_hash |-> calculate_file_hash(content), chunk_index |-> x[1],
    data |-> x[3], chunk_hash |-> Sha256(x[2])] :
     x \in UNION {
        {<<i, d, B64Encode(d)>> : d \in ChunkData(content, i)}
          \cup {<<i, content[1], << >>>>, <<i, content[1], <<"%">>>>,
                <<i, content[1], B64Encode(Altered(content[1]))>>}
        : i \in 0..Len(content)}}

StoreInit ==
  /\ NodeInit
  /\ remote = Sharing(SmallFile)

AddRemoteFile(metadata) ==
  /\ SetFM(add_remote_file(FM, metadata))
  /\ UNCHANGED <<pmVars, sessVars, remote, dl, stall, share_calls>>

StartDownload(file_hash) ==
  /\ SetFM(start_download(FM, file_hash).fm)
  /\ UNCHANGED <<pmVars, sessVars, remote, dl, stall, share_calls>>

WriteChunk(file_hash, chunk_index, data) ==
  /\ SetFM(write_chunk(FM, file_hash, chunk_index, data).fm)
  /\ UNCHANGED <<pmVars, sessVars, remote, dl, stall, share_calls>>

IsDownloadComplete(file_hash) ==
  /\ SetFM(is_download_complete(FM, file_hash).fm)
  /\ UNCHANGED <<pmVars, sessVars, remote, dl, stall, share_calls>>

HandleFileChunk(payload) ==
  /\ SetFM(handle_file_chunk(Node, payload).fm)
  /\ UNCHANGED <<pmVars, sessVars, remote, dl, stall, share_calls>>

StoreNext ==
  \E content \in StoreFiles :
    LET file_hash == calculate_file_hash(content)
    IN \/ AddRemoteFile(HandshakeManifest(content))
       \/ AddRemoteFile(AnnouncedManifest(content))
       \/ StartDownload(file_hash)
       \/ \E chunk_index \in 0..Len(content) :
            \E data \in ChunkData(content, chunk_index) :
              WriteChunk(file_hash, chunk_index, data)
       \/ IsDownloadComplete(file_hash)
       \/ \E payload \in ChunkFrames(content) : HandleFileChunk(payload)

StoreSpec == StoreInit /\ [][StoreNext]_vars

\* the paths start_download derives from the manifest of file_hash
TempPathOf(file_hash) == TempPath(file_metadata[file_hash].filename)
FinalPathOf(file_hash) == FinalPath(file_metadata[file_hash].filename)

\* every chunk index of the download is in its chunk set
AllChunksWritten(file_hash) ==
  /\ file_hash \in DOMAIN downloading_files
  /\ Cardinality(downloading_files[file_hash].downloaded_chunks)
       = downloading_files[file_hash].total_chunks

\* C1: an index is in a download's chunk set only if the bytes written at it
\* hash to the manifest's piece_hashes entry for that index (the manifest the
\* receiver holds, not the digest the frame carries).  Stated for manifests
\* that carry a piece_hashes entry for the index.
ChunksVerifiedAgainstManifest ==
  \A file_hash \in DOMAIN downloading_files :
    \A chunk_index \in downloading_files[file_hash].downloaded_chunks :
      LET piece_hashes == downloading_files[file_hash].metadata.piece_hashes
          temp == disk[downloading_files[file_hash].temp_path]
      IN chunk_index + 1 \in DOMAIN piece_hashes =>
           Sha256(temp[chunk_index + 1]) = piece_hashes[chunk_index + 1]

\* C2: whenever is_download_complete returns true, the final file exists in
\* the download directory and its content hashes to the digest.
CompleteMeansFinalFile ==
  \A file_hash \in DOMAIN file_metadata :
    LET done == is_download_complete(FM, file_hash)
    IN done.result =>
         /\ FinalPathOf(file_hash) \in DOMAIN done.fm.disk
         /\ calculate_file_hash(done.fm.disk[FinalPathOf(file_hash)]) = file_hash

\* C3: finalize renames the temp file to the final path and registers a
\* record with that path only when the digest of the temp file equals the
\* manifest digest; on a mismatch the temp file, the final path and the
\* records stay as they were.  Hence a file at the final path always hashes
\* to its digest, and a record with the final path has its file.
FinalizeOnlyOnMatch ==
  \A file_hash \in DOMAIN file_metadata :
    /\ FinalPathOf(file_hash) \in DOMAIN disk =>
         calculate_file_hash(disk[FinalPathOf(file_hash)]) = file_hash
    /\ ( /\ file_hash \in DOMAIN shared_files
         /\ "filepath" \in DOMAIN shared_files[file_hash]
         /\ shared_files[file_hash].filepath = FinalPathOf(file_hash) ) =>
         FinalPathOf(file_hash) \in DOMAIN disk
    /\ file_hash \in DOMAIN downloading_files =>
         LET fin == finalize_download(FM, file_hash)
             temp == disk[TempPathOf(file_hash)]
         IN IF calculate_file_hash(temp) = file_hash
            THEN /\ fin.outcome = "renamed"
                 /\ fin.fm.disk[FinalPathOf(file_hash)] = temp
                 /\ TempPathOf(file_hash) \notin DOMAIN fin.fm.disk
                 /\ fin.fm.shared_files[file_hash].filepath = FinalPathOf(file_hash)
            ELSE /\ fin.outcome = "mismatch"
                 /\ fin.fm = FM

\* one download has all its chunks and a temp file of another digest, with
\* nothing at its final path, while another download has been renamed
FinalizeBothWays ==
  /\ \E file_hash \in DOMAIN downloading_files :
       /\ AllChunksWritten(file_hash)
       /\ calculate_file_hash(disk[TempPathOf(file_hash)]) # file_hash
       /\ FinalPathOf(file_hash) \notin DOMAIN disk
       /\ "filepath" \notin DOMAIN shared_files[file_hash]
  /\ \E file_hash \in DOMAIN shared_files :
       /\ "filepath" \in DOMAIN shared_files[file_hash]
       /\ shared_files[file_hash].filepath \in DOMAIN disk

\* C19: start_download for a digest whose download is in progress returns
\* success and changes nothing: the chunk set and the content of the temp
\* file are what they were before the call.
BeginDownloadIdempotent ==
  [][\A content \in StoreFiles :
       LET file_hash == calculate_file_hash(content)
       IN (file_hash \in DOMAIN downloading_files /\ StartDownload(file_hash)) =>
            /\ start_download(FM, file_hash).ok
            /\ downloading_files'[file_hash].downloaded_chunks
                 = downloading_files[file_hash].downloaded_chunks
            /\ disk'[TempPathOf(file_hash)] = disk[TempPathOf(file_hash)]]_vars

\* C20: write_chunk for a digest that has no download in progress fails and
\* creates neither download state nor temp file, and a file_chunk frame for
\* such a digest changes nothing in the file manager either.
WriteChunkNeedsDownload ==
  \A content \in StoreFiles :
    LET file_hash == calculate_file_hash(content)
    IN file_hash \notin DOMAIN downloading_files =>
         /\ \A chunk_index \in 0..Len(content) :
              \A data \in ChunkData(content, chunk_index) :
                LET written == write_chunk(FM, file_hash, chunk_index, data)
                IN ~written.ok /\ written.fm = FM
         /\ \A payload \in ChunkFrames(content) :
              handle_file_chunk(Node, payload).fm = FM

\* C29: the chunk set of a download holds only indices of
\* 0..total_chunks-1, and is_download_complete is true exactly when the set
\* is that whole range, whatever index a file_chunk frame or a write_chunk
\* call has carried.
CompleteIffAllChunks ==
  \A file_hash \in DOMAIN downloading_files :
    LET info == downloading_files[file_hash]
        range == 0..(info.total_chunks - 1)
    IN /\ info.downloaded_chunks \subseteq range
       /\ is_download_complete(FM, file_hash).result <=> info.downloaded_chunks = range

\* ------------------------------------------------ the chunks of a large file
\* The chunk store with the manifest and the chunks of big.dat, written in
\* any order, each with the bytes of the source.
ChunksNext ==
  LET file_hash == calculate_file_hash(BigFile)
  IN \/ AddRemoteFile(AnnouncedManifest(BigFile))
     \/ StartDownload(file_hash)
     \/ \E chunk_index \in 0..(Len(BigFile) - 1) :
          WriteChunk(file_hash, chunk_index, BigFile[chunk_index + 1])
     \/ IsDownloadComplete(file_hash)

ChunksSpec == StoreInit /\ [][ChunksNext]_vars

\* C30: get_missing_chunks returns, in ascending order, the indices of the
\* range that are not in the chunk set of the download in progress; the
\* whole range for a digest with a manifest and no download; the empty list
\* for a digest without a manifest.
MissingChunksAscending ==
  \A file_hash \in Digests :
    LET missing == get_missing_chunks(FM, file_hash)
    IN /\ \A i \in 1..Len(missing) : \A j \in 1..Len(missing) :
            i < j => missing[i] < missing[j]
       /\ {missing[i] : i \in 1..Len(missing)} =
            IF file_hash \in DOMAIN downloading_files
            THEN (0..(downloading_files[file_hash].total_chunks - 1))
                   \ downloading_files[file_hash].downloaded_chunks
            ELSE IF file_hash \in DOMAIN file_metadata
                 THEN 0..(file_metadata[file_hash].total_chunks - 1)
                 ELSE {}

\* ------------------------------------------- the registry and the manifests
\* The manifest registry fed by the files the node shares from its disk and
\* by the manifests peers send, well formed or not, in handshakes and
\* file_announce frames; downloads are begun but receive no chunk.
WireManifest(content) ==
  [k \in ManifestFields |-> LocalRecord(content, << >>)[k]]

\* file names with a path separator, as a peer may send them
NamesWithSeparator == {"metadata/x"}
HasSeparator(filename) == filename \in NamesWithSeparator

\* what a peer may send as the manifest of a file: all six fields, the four
\* a handshake of this program carries, a wrong chunk count, another chunk
\* size, an empty file name, a file name with a separator, no file name
PeerManifests(content) ==
  {WireManifest(content),
   [k \in RequiredFields |-> WireManifest(content)[k]],
   [WireManifest(content) EXCEPT !.total_chunks = @ + 1],
   [WireManifest(content) EXCEPT !.chunk_size = OtherChunkSize],
   [WireManifest(content) EXCEPT !.filename = ""],
   [WireManifest(content) EXCEPT !.filename = "metadata/x"],
   [k \in ManifestFields \ {"filename"} |-> WireManifest(content)[k]]}

AddSharedFile(filepath) ==
  /\ SetFM(add_shared_file(FM, filepath).fm)
  /\ UNCHANGED <<pmVars, sessVars, remote, dl, stall, share_calls>>

HandleFileAnnounce(peer_id, payload) ==
  /\ SetNode(handle_file_announce(Node, peer_id, payload))
  /\ UNCHANGED <<connPc, remote, dl, stall, share_calls>>

\* the loop of handle_handshake over the files of one handshake
HandleHandshakeFiles(peer_id, files) ==
  /\ SetNode(RegisterFiles(Node, peer_id, files))
  /\ UNCHANGED <<connPc, remote, dl, stall, share_calls>>

RegInit ==
  /\ NodeInit
  /\ remote = Sharing(HelloFile)

RegNext ==
  \/ \E content \in LocalFiles : CreateFile(content)
  \/ \E content \in LocalFiles : AddSharedFile(SourcePath(content))
  \/ \E content \in LocalFiles : StartDownload(calculate_file_hash(content))
  \/ \E peer_id \in Peers : \E content \in LocalFiles :
       \E payload \in PeerManifests(content) : HandleFileAnnounce(peer_id, payload)
  \/ \E peer_id \in Peers :
       \E f1 \in PeerManifests(HelloFile) : \E f2 \in PeerManifests(SmallFile) :
         HandleHandshakeFiles(peer_id, {f1, f2})

RegSpec == RegInit /\ [][RegNext]_vars

\* a file name that is one path component
ValidFilename(filename) == filename # "" /\ ~HasSeparator(filename)

\* download_dir / name is a direct child of the download directory exactly
\* when name is one path component
DirectChild(path) == Len(path) >= 2 /\ path[1] = "downloads" /\ ValidFilename(path[Len(path)])

\* C17: a manifest from a peer whose filename is empty or contains a path
\* separator is not registered, so the temp and the final path of every
\* download are direct children of the download directory.
NamesValidated ==
  /\ \A file_hash \in DOMAIN file_metadata :
       ValidFilename(file_metadata[file_hash].filename)
  /\ \A file_hash \in DOMAIN downloading_files :
       /\ DirectChild(downloading_files[file_hash].temp_path)
       /\ DirectChild(downloading_files[file_hash].final_path)

\* C18: add_remote_file inserts a record only for an unknown digest; for a
\* digest that has a record, local or remote, it (and the file_announce
\* handler that calls it) leaves the registry as it is, a local record's path
\* and manifest fields included.
RegisterRemoteOnlyUnknown ==
  \A content \in LocalFiles :
    \A payload \in {f \in PeerManifests(content) : FileMetadataAccepts(f)} :
      LET file_hash == payload.file_hash
          after == add_remote_file(FM, FileMetadata(payload))
      IN IF file_hash \in (DOMAIN shared_files) \cup (DOMAIN file_metadata)
         THEN /\ after = FM
              /\ \A peer_id \in Peers :
                   handle_file_announce(Node, peer_id, payload).fm = FM
         ELSE /\ DOMAIN after.file_metadata = (DOMAIN file_metadata) \cup {file_hash}
              /\ after.file_metadata[file_hash] = FileMetadata(payload)
              /\ after.shared_files[file_hash] = FileMetadata(payload)

\* the registry holds the local record, with its path, of a file that a peer
\* has announced as well, and a remote record of another file
LocalRecordAnnounced ==
  \E content \in LocalFiles :
    LET file_hash == calculate_file_hash(content)
    IN /\ file_hash \in DOMAIN shared_files
       /\ shared_files[file_hash] = LocalRecord(content, SourcePath(content))
       /\ file_metadata[file_hash] = LocalRecord(content, SourcePath(content))
       /\ Get(file_availability, file_hash, {}) # {}
       /\ \E other \in DOMAIN shared_files :
            other # file_hash /\ "filepath" \notin DOMAIN shared_files[other]

\* ----------------------------------------------- the peer manager by itself
\* The PeerManager driven through its entry points in any order, for any
\* peer, attached or not.
SetPM(pm) ==
  /\ peers' = pm.peers
  /\ file_availability' = pm.file_availability
  /\ chunk_availability' = pm.chunk_availability
  /\ peer_files' = pm.peer_files

PMInit ==
  /\ NodeInit
  /\ remote = Sharing(SmallFile)

AddPeer(peer_id, protocol) ==
  /\ SetPM(add_peer(PM, peer_id, protocol))
  /\ UNCHANGED <<fmVars, sessVars, remote, dl, stall, share_calls>>

RemovePeer(peer_id) ==
  /\ SetPM(remove_peer(PM, peer_id))
  /\ UNCHANGED <<fmVars, sessVars, remote, dl, stall, share_calls>>

AddPeerFile(peer_id, file_hash) ==
  /\ SetPM(add_peer_file(PM, peer_id, file_hash))
  /\ UNCHANGED <<fmVars, sessVars, remote, dl, stall, share_calls>>

AddPeerChunk(peer_id, file_hash, chunk_index) ==
  /\ SetPM(add_peer_chunk(PM, peer_id, file_hash, chunk_index))
  /\ UNCHANGED <<fmVars, sessVars, remote, dl, stall, share_calls>>

PMNext ==
  \E peer_id \in Peers :
    \/ AddPeer(peer_id, 1)
    \/ RemovePeer(peer_id)
    \/ AddPeerFile(peer_id, calculate_file_hash(SmallFile))
    \/ \E chunk_index \in 0..(NumChunks - 1) :
         AddPeerChunk(peer_id, calculate_file_hash(SmallFile), chunk_index)

PMSpec == PMInit /\ [][PMNext]_vars

\* the peer is a member of no set of the two availability maps
InNoAvailabilitySet(pm, peer_id) ==
  /\ \A file_hash \in DOMAIN pm.file_availability :
       peer_id \notin pm.file_availability[file_hash]
  /\ \A key \in DOMAIN pm.chunk_availability :
       peer_id \notin pm.chunk_availability[key]

\* C9: after remove_peer(P), P is a member of no set of the file-availability
\* map and of no set of the chunk-availability map, whatever was recorded for
\* it before.  Stated for a peer that is attached when it is removed.
RemovedPeerInNoSet ==
  [][\A peer_id \in Peers :
       (peer_id \in DOMAIN peers /\ RemovePeer(peer_id)) =>
         InNoAvailabilitySet(PM, peer_id)']_vars

\* C11: get_best_peer_for_chunk never returns the id of a peer whose session
\* has been detached: right after remove_peer(P) of an attached P, no digest,
\* index and iteration order make it return P, whatever was recorded before
\* (and so P is never chosen in place of a live peer that has the file).
SelectSkipsDetached ==
  [][\A peer_id \in Peers :
       (peer_id \in DOMAIN peers /\ RemovePeer(peer_id)) =>
         \A chunk_index \in 0..(NumChunks - 1) : \A first \in Peers :
           get_best_peer_for_chunk(PM, calculate_file_hash(SmallFile),
                                   chunk_index, first)' # peer_id]_vars

\* ------------------------------------------------- the life of the sessions
\* Outbound and inbound connections, handshakes that arrive or do not, the
\* two waits for them, and connection losses; no download.
SessInit ==
  /\ NodeInit
  /\ remote = Sharing(HelloFile)

SessNext ==
  \/ \E host \in Peers : ConnectToPeer(host)
  \/ \E host \in Peers : AcceptConnection(host)
  \/ \E s \in Sessions : ReceiveHandshake(s)
  \/ \E s \in Sessions : ConnectReturns(s)
  \/ \E s \in Sessions : ConnectWaitExpires(s)
  \/ \E s \in Sessions : HandshakeTimeout(s)
  \/ \E s \in Sessions : ConnectionLost(s)

SessSpec == SessInit /\ [][SessNext]_vars

\* a session whose connection_lost has not run yet and whose remote peer is
\* peer_id
HasLiveSession(peer_id) ==
  \E s \in DOMAIN protocols :
    /\ protocols[s].transport \in {"open", "closing"}
    /\ protocols[s].remote_peer_id = peer_id

\* C10: an identifier is a key of PeerManager.peers if and only if a session
\* whose remote peer is that identifier is live, in every reachable state.
SessionTableMatchesLive ==
  \A key \in (DOMAIN peers) \cup Peers :
    key \in DOMAIN peers <=> HasLiveSession(key)

\* no key of PeerManager.peers maps to session s
NoEntryFor(table, s) == \A key \in DOMAIN table : table[key] # s

\* C12: when the peer's handshake has not arrived on an outbound connection
\* within the handshake timeout, the timeout has closed the session and
\* connect_to_peer has returned, then once the connection is lost no entry
\* for it remains in the session table under any key.
NoEntryAfterHandshakeTimeout ==
  [][\A s \in Sessions :
       ( /\ s \in DOMAIN protocols
         /\ connPc[s] = "returned"
         /\ protocols[s].transport = "closing"
         /\ protocols[s].remote_peer_id = NoPeer
         /\ ConnectionLost(s) ) => NoEntryFor(peers, s)']_vars

\* C22: the loss of one session leaves every other session as it was: the
\* other session keeps its entry in the session table, its peer stays in the
\* availability sets it was in, and its fields (the retry counters among
\* them) are unchanged.
LossLeavesOthers ==
  [][\A s \in Sessions : \A t \in Sessions \ {s} :
       ( /\ ConnectionLost(s)
         /\ Live(t)
         /\ protocols[t].remote_peer_id # NoPeer ) =>
         LET peer_id == protocols[t].remote_peer_id
         IN /\ (peer_id \in DOMAIN peers /\ peers[peer_id] = t) =>
                 (peer_id \in DOMAIN peers' /\ peers'[peer_id] = t)
            /\ \A file_hash \in DOMAIN file_availability :
                 peer_id \in file_availability[file_hash] =>
                   peer_id \in file_availability'[file_hash]
            /\ protocols'[t] = protocols[t]]_vars

\* --------------------------------------------- the scheduler on a large file
\* One session to peer C, which advertises big.dat (one chunk more than a poll
\* cycle requests) and holds no copy of it: it answers every chunk_request with
\* chunk_not_found, at any speed, and every index stays missing.
SchedInit ==
  /\ NodeInit
  /\ remote = Sharing(BigFile)

ConnectOnce(host) ==
  /\ protocols = EmptyDict
  /\ ConnectToPeer(host)

SchedNext ==
  \/ ConnectOnce("C")
  \/ \E s \in Sessions : ReceiveHandshake(s)
  \/ \E s \in Sessions : ReceiveChunkResponse(s)
  \/ DownloadFile(calculate_file_hash(BigFile))
  \/ DownloadChunks /\ UNCHANGED stall

SchedSpec == SchedInit /\ [][SchedNext]_vars

\* chunk_requests written for the file and not yet answered, over all sessions
Outstanding == QueuedOn(outQ)

\* C6 as stated: at most 10 chunk_requests of the in-progress file are sent
\* and not yet answered, in every reachable state.
AtMostTenOutstanding == Outstanding <= MaxPerCycle

\* C6, amended: one poll cycle writes at most 10 chunk_requests, so the
\* number outstanding grows by at most 10 in any step.
AtMostTenPerCycle ==
  [][QueuedOn(outQ') <= QueuedOn(outQ) + MaxPerCycle]_vars

\* the first poll of big.dat has written the 10 requests of its slice and
\* left the eleventh missing index unrequested
FirstCycleSliced ==
  /\ dl.pc = "running"
  /\ Len(get_missing_chunks(FM, dl.file_hash)) = MaxPerCycle + 1
  /\ Outstanding = MaxPerCycle
  /\ \E s \in DOMAIN sent :
       RetryKey(dl.file_hash, MaxPerCycle) \notin DOMAIN sent[s]

\* ------------------------------------------------ one download, end to end
\* One session, to the seeder A of small.dat or to the relay C; the peer
\* answers every chunk_request, the node's event loop runs the scheduler
\* after each of its sleeps.
LiveInit ==
  /\ NodeInit
  /\ remote = Sharing(SmallFile)

PollCycle == DownloadChunks /\ ObserveStall

LiveNext ==
  \/ \E host \in Peers : ConnectOnce(host)
  \/ \E s \in Sessions : ReceiveHandshake(s)
  \/ \E s \in Sessions : ReceiveChunkResponse(s)
  \/ DownloadFile(calculate_file_hash(SmallFile))
  \/ PollCycle

\* Fairness: the event loop runs the scheduler again after every sleep, and
\* the peer answers every request.  A poll cycle is the only step that changes
\* stall, and it is enabled whenever the scheduler runs, so the fairness of
\* PollCycle is stated on the observation it makes.
Polled == dl.pc = "running" /\ ObserveStall

\* Likewise the arrival of an answer is the only step that takes the head off
\* outQ[s], and it is enabled whenever a request on a live session is unanswered.
Answered(s) ==
  /\ Live(s)
  /\ outQ[s] # << >>
  /\ outQ' = [outQ EXCEPT ![s] = Tail(@)]

LiveSpec ==
  /\ LiveInit
  /\ [][LiveNext]_vars
  /\ WF_stall(Polled)
  /\ \A s \in Sessions : WF_outQ(Answered(s))

\* the node's session to the peer that shared the file from its disk is live
\* and registered
SeederConnected ==
  \E s \in DOMAIN protocols :
    /\ Live(s)
    /\ protocols[s].host = "A"
    /\ "A" \in DOMAIN peers /\ peers["A"] = s

\* C4: once download_file has started the scheduler and a live peer that
\* holds the file answers every chunk_request with the correct chunk, the
\* scheduler eventually sees an empty missing list and download_file returns.
SchedulerTerminates ==
  (dl.pc = "running" /\ SeederConnected) ~> (dl.pc = "returned")

\* C5: after A shared the file and the node completed the handshake with A,
\* download_file of the digest returns with the final file in the download
\* directory, equal to A's source file chunk for chunk (so of the same size).
RoundTrip ==
  (dl.pc = "running" /\ SeederConnected) ~>
    ( /\ dl.pc = "returned"
      /\ FinalPath(Filename(SmallFile)) \in DOMAIN disk
      /\ disk[FinalPath(Filename(SmallFile))]
           = remote["A"].files[SourcePath(SmallFile)] )

\* the missing list has been the same for StallCycles poll cycles and every
\* missing chunk has used up its retries on every session
StallCondition ==
  /\ dl.pc = "running"
  /\ stall.same_polls >= StallCycles
  /\ \A s \in DOMAIN protocols :
       \A i \in 1..Len(stall.prev_missing) :
         Get(protocols[s].retry_counts,
             RetryKey(dl.file_hash, stall.prev_missing[i]), 0) > MAX_CHUNK_RETRIES

\* C8: when the missing list stays the same over at least three poll cycles
\* and every remaining chunk has exhausted its retries, download_file
\* eventually returns an outcome other than success.
StallSurfaces ==
  StallCondition ~> (dl.pc = "returned" /\ dl.result # TRUE)

\* ------------------------------------------------ the frames a peer may send
\* One inbound session from peer A to a node that may share hello.txt from
\* its disk.  The peer sends whole lines: frames of every kind, well formed
\* or not, and lines that are no frames.  The user may remove the file.
FramePeer == "A"

Frame(type, payload) == [type |-> type, peer_id |-> FramePeer, payload |-> payload]

\* a manifest without its file name
NamelessManifest(content) ==
  [k \in ManifestFields \ {"filename"} |-> WireManifest(content)[k]]

\* lines that are no JSON, frames of no known type, frames without a payload
\* and frames whose payload lacks what the frame type needs
BadLines ==
  {<<Junk>>,
   Text(Frame("bogus", EmptyDict)),
   Text([type |-> "handshake", peer_id |-> FramePeer]),
   Text(Frame("file_announce", NamelessManifest(SmallFile))),
   Text(Frame("handshake", [files |-> {NamelessManifest(SmallFile)}])),
   Text(Frame("file_chunk", [file_hash |-> calculate_file_hash(SmallFile),
                             chunk_index |-> 0]))}

\* the chunk_request payloads of the peer: a chunk of hello.txt, an index
\* past its end, a chunk of small.dat
ChunkRequests ==
  {[file_hash |-> calculate_file_hash(HelloFile), chunk_index |-> 0],
   [file_hash |-> calculate_file_hash(HelloFile), chunk_index |-> 1],
   [file_hash |-> calculate_file_hash(SmallFile), chunk_index |-> 0]}

HaveFrame(chunk_index) ==
  Frame("have", [file_hash |-> calculate_file_hash(SmallFile),
                 chunk_index |-> chunk_index])

\* the peer asks for hello.txt
FileRequestFrame ==
  Frame("file_request", [file_hash |-> calculate_file_hash(HelloFile)])

GoodLines ==
  {Text(Frame("handshake",
              [files |-> {[k \in RequiredFields |-> WireManifest(SmallFile)[k]]}])),
   Text(Frame("file_announce", WireManifest(SmallFile))),
   Text(Frame("ping", EmptyDict)),
   Text(FileRequestFrame)}
    \cup {Text(HaveFrame(chunk_index)) : chunk_index \in 0..1}
    \cup {Text(Frame("chunk_request", request)) : request \in ChunkRequests}

\* the read loop of _handle_connection / _handle_peer_data passes what it
\* read to data_received
DataReceived(s, data) ==
  /\ Live(s)
  /\ SetNode(data_received(Node, s, data))
  /\ UNCHANGED <<connPc, remote, dl, stall, share_calls>>

\* the user deletes a file the node shares
RemoveFile(filepath) ==
  /\ filepath \in DOMAIN disk
  /\ disk' = Del(disk, filepath)
  /\ UNCHANGED <<shared_files, downloading_files, file_metadata, pmVars,
                 sessVars, remote, dl, stall, share_calls>>

AcceptOnce(host) ==
  /\ protocols = EmptyDict
  /\ AcceptConnection(host)

FrameInit ==
  /\ NodeInit
  /\ remote = Sharing(SmallFile)

FrameNext ==
  \/ CreateFile(HelloFile)
  \/ AddSharedFile(SourcePath(HelloFile))
  \/ RemoveFile(SourcePath(HelloFile))
  \/ AcceptOnce(FramePeer)
  \/ \E s \in Sessions : \E line \in BadLines \cup GoodLines :
       /\ s \in DOMAIN protocols
       /\ Len(protocols[s].handled) < MaxFrames
       /\ DataReceived(s, line \o <<Newline>>)

FrameSpec == FrameInit /\ [][FrameNext]_vars

\* C21: a line that is no JSON, a frame of an unknown type and a frame whose
\* payload violates the schema of its type are dropped: the manifest
\* registry, the availability maps and the session table are what they were
\* before the line, and the session stays open.
BadFramesDropped ==
  [][\A s \in Sessions : \A line \in BadLines :
       DataReceived(s, line \o <<Newline>>) =>
         /\ UNCHANGED <<shared_files, file_metadata>>
         /\ UNCHANGED <<file_availability, chunk_availability, peer_files>>
         /\ peers' = peers
         /\ Live(s)']_vars

\* C25: a have frame {file_hash, chunk_index} from peer P on an established
\* session adds P to chunk_availability[(file_hash, chunk_index)], so that
\* get_best_peer_for_chunk can return P for that chunk.
HaveRecordsChunk ==
  [][\A s \in Sessions : \A chunk_index \in 0..1 :
       ( /\ s \in DOMAIN protocols
         /\ protocols[s].handshake_done
         /\ DataReceived(s, Text(HaveFrame(chunk_index)) \o <<Newline>>) ) =>
         FramePeer \in get_peers_with_chunk(PM, calculate_file_hash(SmallFile),
                                             chunk_index)']_vars

\* the chunk a request names can be read: the digest has a record with a
\* path, the file is at the path, and the index lies within the file
Readable(request) ==
  /\ request.file_hash \in DOMAIN shared_files
  /\ "filepath" \in DOMAIN shared_files[request.file_hash]
  /\ shared_files[request.file_hash].filepath \in DOMAIN disk
  /\ request.chunk_index < Len(disk[shared_files[request.file_hash].filepath])

\* the answer the protocol prescribes for a request
ExpectedAnswer(request) ==
  IF Readable(request)
  THEN LET bytes == disk[shared_files[request.file_hash].filepath][request.chunk_index + 1]
       IN [type |-> "file_chunk",
           payload |-> [file_hash |-> request.file_hash,
                        chunk_index |-> request.chunk_index,
                        data |-> B64Encode(bytes),
                        chunk_hash |-> Sha256(bytes)]]
  ELSE [type |-> "chunk_not_found",
        payload |-> [file_hash |-> request.file_hash,
                     chunk_index |-> request.chunk_index]]

IsChunkRequest(line) == JsonValid(line) /\ json_loads(line).type = "chunk_request"
IsChunkAnswer(frame) == frame.type \in {"file_chunk", "chunk_not_found"}

\* C27: on a session every chunk_request is answered by exactly one frame
\* for the same (file_hash, chunk_index), written before the next line is
\* handled: file_chunk with the chunk and its digest when the chunk can be
\* read, chunk_not_found when the digest is unknown, the file is missing or
\* the read is empty.  The answers are as many as the requests and in their
\* order.
ChunkRequestsAnswered ==
  /\ [][\A s \in Sessions : \A request \in ChunkRequests :
          DataReceived(s, Text(Frame("chunk_request", request)) \o <<Newline>>) =>
            protocols'[s].written = Append(protocols[s].written, ExpectedAnswer(request))]_vars
  /\ [](\A s \in DOMAIN protocols :
          LET requests == SelectSeq(protocols[s].handled, IsChunkRequest)
              answers == SelectSeq(protocols[s].written, IsChunkAnswer)
          IN /\ Len(answers) = Len(requests)
             /\ \A k \in 1..Len(requests) :
                  /\ answers[k].payload.file_hash
                       = json_loads(requests[k]).payload.file_hash
                  /\ answers[k].payload.chunk_index
                       = json_loads(requests[k]).payload.chunk_index)

\* the same chunk of hello.txt was requested twice: it was answered with
\* file_chunk while the file was there and with chunk_not_found after the
\* file was removed
AnsweredBothWays ==
  \E s \in DOMAIN protocols :
    LET request == [file_hash |-> calculate_file_hash(HelloFile), chunk_index |-> 0]
    IN /\ Len(protocols[s].written) = 2
       /\ protocols[s].written[1].type = "file_chunk"
       /\ protocols[s].written[1].payload.data = B64Encode(HelloFile[1])
       /\ protocols[s].written[2] = [type |-> "chunk_not_found", payload |-> request]

\* ----------------------------------------------- the stream, byte by byte
\* One inbound session on which the peer's bytes arrive in reads of any
\* size up to MaxRead: newlines, bytes of no frame, and the halves of the
\* texts of a ping and of a handshake.
PingFrame == Frame("ping", EmptyDict)
HandshakeFrame ==
  Frame("handshake", [files |-> {[k \in RequiredFields |-> WireManifest(SmallFile)[k]]}])

StreamBytes ==
  {Newline, Junk, Text(PingFrame)[1], Text(PingFrame)[2],
   Text(HandshakeFrame)[1], Text(HandshakeFrame)[2]}

\* what one reader.read(8192) may return
Reads == UNION {[1..k -> StreamBytes] : k \in 1..MaxRead}

StreamNext ==
  \/ AcceptOnce(FramePeer)
  \/ \E s \in Sessions : \E data \in Reads :
       /\ s \in DOMAIN protocols
       /\ Len(protocols[s].received) + Len(data) <= MaxStream
       /\ DataReceived(s, data)

StreamSpec == FrameInit /\ [][StreamNext]_vars

\* the positions of the newlines of a stream
NewlinesOf(stream) == {i \in 1..Len(stream) : stream[i] = Newline}

IsLine(line) == line # << >>

\* the newline-terminated lines of a stream that are not empty, in order
LinesOf(stream) ==
  LET ends == Ascending(NewlinesOf(stream))
  IN SelectSeq([k \in 1..Len(ends) |->
                  SubSeq(stream, IF k = 1 THEN 1 ELSE ends[k - 1] + 1, ends[k] - 1)],
               IsLine)

\* the bytes after the last newline of a stream
Remainder(stream) ==
  LET ends == NewlinesOf(stream) \cup {0}
      last == CHOOSE i \in ends : \A j \in ends : j <= i
  IN SubSeq(stream, last + 1, Len(stream))

\* the node right after it accepted the connection of the peer
JustAccepted ==
  [fm |-> [shared_files |-> EmptyDict, downloading_files |-> EmptyDict,
           file_metadata |-> EmptyDict, disk |-> EmptyDict],
   pm |-> [peers |-> EmptyDict, file_availability |-> EmptyDict,
           chunk_availability |-> EmptyDict, peer_files |-> EmptyDict],
   ss |-> [protocols |-> Put(EmptyDict, 1, NewProtocol(FramePeer)),
           outQ |-> Put(EmptyDict, 1, << >>),
           sent |-> Put(EmptyDict, 1, EmptyDict)]]

\* C28: however the stream is cut into reads, the lines passed to
\* handle_message are the newline-terminated lines of the bytes received so
\* far, in order (a line without bytes carries no frame and is passed over),
\* the buffer holds the bytes after the last newline, and the node is in the
\* state that one read of all the bytes would have left.
SplitsMakeNoDifference ==
  \A s \in DOMAIN protocols :
    /\ protocols[s].handled = LinesOf(protocols[s].received)
    /\ protocols[s].buffer = Remainder(protocols[s].received)
    /\ Node = data_received(JustAccepted, s, protocols[s].received)

\* a ping that took more than one read has been answered, and the first half
\* of the next frame waits in the buffer for the rest
FrameAcrossReads ==
  \E s \in DOMAIN protocols :
    /\ protocols[s].handled = <<Text(PingFrame)>>
    /\ protocols[s].written = <<[type |-> "pong", payload |-> EmptyDict]>>
    /\ protocols[s].buffer = <<Text(HandshakeFrame)[1]>>

\* ------------------------------------------- a wire that alters chunk data
\* The download of a file of two chunks, over a connection on which the data
\* of a file_chunk frame may be altered in transit; the chunk_hash of the
\* frame is the sender's.
ReceiveAlteredChunk(s) ==
  /\ Live(s)
  /\ outQ[s] # << >>
  /\ Len(protocols[s].altered) < MaxAltered
  /\ LET frame == ChunkResponse(protocols[s].host, Head(outQ[s]))
     IN /\ frame.type = "file_chunk"
        /\ LET payload == [frame.payload EXCEPT
                             !.data = B64Encode(Altered(B64Decode(@)))]
               n1 == RegisterSender(
                       [Node EXCEPT !.ss.outQ[s] = Tail(@),
                                    !.ss.protocols[s].altered =
                                       Append(@, frame.payload.chunk_index)],
                       s, frame.peer_id)
           IN SetNode(handle_file_chunk(n1, payload))
  /\ UNCHANGED <<connPc, remote, dl, stall, share_calls>>

\* the file of this download: two chunks
PairFile == <<1, 2>>

WireInit ==
  /\ NodeInit
  /\ remote = Sharing(PairFile)

WireNext ==
  \/ \E host \in Peers : ConnectOnce(host)
  \/ \E s \in Sessions : ReceiveHandshake(s)
  \/ \E s \in Sessions : ReceiveChunkResponse(s)
  \/ DownloadFile(calculate_file_hash(PairFile))
  \/ PollCycle
  \/ \E s \in Sessions : ReceiveAlteredChunk(s)

WireSpec ==
  /\ WireInit
  /\ [][WireNext]_vars
  /\ WF_stall(Polled)
  /\ \A s \in Sessions : WF_outQ(Answered(s))

\* the download of the file has been finalized: the final file is in the
\* download directory with the content of the source, and the record of the
\* digest points at it
Completed(content) ==
  /\ FinalPath(Filename(content)) \in DOMAIN disk
  /\ calculate_file_hash(disk[FinalPath(Filename(content))]) = calculate_file_hash(content)
  /\ calculate_file_hash(content) \in DOMAIN shared_files
  /\ "filepath" \in DOMAIN shared_files[calculate_file_hash(content)]
  /\ shared_files[calculate_file_hash(content)].filepath = FinalPath(Filename(content))

\* a file_chunk frame of the download has arrived altered on a session
AlteredArrived == \E s \in DOMAIN protocols : protocols[s].altered # << >>

\* C23: a file_chunk frame whose data was altered in transit is not written
\* and its index is not added to the chunk set (the file manager is left as
\* it was); the poll cycles after it request every missing chunk again while
\* the retry cap allows; and with the seeder answering every request, the
\* download is finalized in the end.
AlteredChunkRejected ==
  /\ [][\A s \in Sessions : ReceiveAlteredChunk(s) => UNCHANGED fmVars]_vars
  /\ [][(PollCycle /\ SeederConnected /\ AlteredArrived) =>
          LET missing_chunks == get_missing_chunks(FM, dl.file_hash)
              s == peers["A"]
          IN \A i \in 1..Len(missing_chunks) :
               LET key == RetryKey(dl.file_hash, missing_chunks[i])
               IN Get(protocols[s].retry_counts, key, 0) < MAX_CHUNK_RETRIES =>
                    Get(sent'[s], key, 0) = Get(sent[s], key, 0) + 1]_vars
  /\ (dl.pc = "running" /\ SeederConnected /\ AlteredArrived) ~> Completed(PairFile)

\* the answer to the first request of a chunk arrived altered, the chunk is
\* not in the chunk set, and the second request for it is on its way
AlteredChunkReRequested ==
  \E s \in DOMAIN protocols : \E k \in DOMAIN protocols[s].altered :
    LET file_hash == calculate_file_hash(PairFile)
        chunk_index == protocols[s].altered[k]
    IN /\ file_hash \in DOMAIN downloading_files
       /\ chunk_index \notin downloading_files[file_hash].downloaded_chunks
       /\ Get(sent[s], RetryKey(file_hash, chunk_index), 0) = 2
       /\ outQ[s] = <<[file_hash |-> file_hash, chunk_index |-> chunk_index]>>

\* ------------------------------------------- a source that goes away
\* A and C both share the two-chunk file from their disks.  The node connects
\* to A and downloads the file; the connection to A may be lost once a chunk
\* has been written and before the download is finalized, and after that the
\* node connects to C.
Seeders(content) == [peer \in Peers |-> Seeder(content)]

FailoverInit ==
  /\ NodeInit
  /\ remote = Seeders(PairFile)

\* the connection to A has been lost
SourceLost ==
  \E s \in DOMAIN protocols :
    protocols[s].host = "A" /\ protocols[s].transport = "lost"

\* the download has written a chunk and is not finalized yet
MidDownload ==
  /\ dl.pc = "running"
  /\ dl.file_hash \in DOMAIN downloading_files
  /\ downloading_files[dl.file_hash].downloaded_chunks # {}
  /\ FinalPath(Filename(PairFile)) \notin DOMAIN disk

LoseSource ==
  \E s \in Sessions :
    /\ s \in DOMAIN protocols
    /\ protocols[s].host = "A"
    /\ MidDownload
    /\ ConnectionLost(s)

ConnectOther ==
  /\ SourceLost
  /\ \A s \in DOMAIN protocols : protocols[s].host # "C"
  /\ ConnectToPeer("C")

FailoverNext ==
  \/ ConnectOnce("A")
  \/ ConnectOther
  \/ \E s \in Sessions : ReceiveHandshake(s)
  \/ \E s \in Sessions : ReceiveChunkResponse(s)
  \/ DownloadFile(calculate_file_hash(PairFile))
  \/ PollCycle
  \/ LoseSource

FailoverSpec ==
  /\ FailoverInit
  /\ [][FailoverNext]_vars
  /\ WF_stall(Polled)
  /\ \A s \in Sessions : WF_outQ(Answered(s))

\* the session to C is live, registered, and C's handshake has advertised
\* the file
TakenOver(s) ==
  /\ Live(s)
  /\ protocols[s].host = "C"
  /\ "C" \in DOMAIN peers /\ peers["C"] = s
  /\ "C" \in get_peers_with_file(PM, calculate_file_hash(PairFile))

\* C24: after the connection to the only source A is lost in the middle of
\* the download, no chunk_request is written on A's session any more; the
\* scheduler goes on running while no peer has the file; once C, which holds
\* the file, is connected and has shaken hands, every poll requests the
\* missing chunks on C's session (within the retry cap) and the download is
\* finalized with the digest of the source.
FailoverCompletes ==
  /\ [][\A s \in DOMAIN protocols :
          protocols[s].transport = "lost" =>
            sent'[s] = sent[s] /\ outQ'[s] = outQ[s]]_vars
  /\ [][(dl.pc = "running" /\ SourceLost
           /\ get_peers_with_file(PM, dl.file_hash) = {}) =>
          dl'.pc = "running"]_vars
  /\ [][\A s \in Sessions :
          (PollCycle /\ SourceLost /\ TakenOver(s)) =>
            LET missing_chunks == get_missing_chunks(FM, dl.file_hash)
            IN \A i \in 1..Len(missing_chunks) :
                 LET key == RetryKey(dl.file_hash, missing_chunks[i])
                 IN Get(protocols[s].retry_counts, key, 0) < MAX_CHUNK_RETRIES =>
                      Get(sent'[s], key, 0) = Get(sent[s], key, 0) + 1]_vars
  /\ (dl.pc = "running" /\ SourceLost /\ \E s \in Sessions : TakenOver(s))
       ~> Completed(PairFile)

\* the download is finalized, A's session was lost after it had been asked
\* for chunks, and C has been asked for the second chunk only
FailedOverToC ==
  LET file_hash == calculate_file_hash(PairFile)
  IN /\ Completed(PairFile)
     /\ \E s \in DOMAIN protocols :
          /\ protocols[s].host = "A"
          /\ protocols[s].transport = "lost"
          /\ RetryKey(file_hash, 0) \in DOMAIN sent[s]
     /\ \E s \in DOMAIN protocols :
          /\ protocols[s].host = "C"
          /\ DOMAIN sent[s] = {RetryKey(file_hash, 1)}

\* ------------------------------------------------- the choice of a source
\* C31: get_best_peer_for_chunk returns a peer of the chunk-level set of
\* (digest, index) when that set is not empty; otherwise a peer of the
\* file-level set of the digest when that is not empty; otherwise None.
\* Whatever the order of the set's list, the result is in one of the two sets.
SourceFromChunkSetFirst ==
  \A first \in Peers : \A chunk_index \in 0..(NumChunks - 1) :
    LET file_hash == calculate_file_hash(SmallFile)
        withChunk == get_peers_with_chunk(PM, file_hash, chunk_index)
        withFile == get_peers_with_file(PM, file_hash)
        best == get_best_peer_for_chunk(PM, file_hash, chunk_index, first)
    IN /\ withChunk # {} => best \in withChunk
       /\ (withChunk = {} /\ withFile # {}) => best \in withFile
       /\ (withChunk = {} /\ withFile = {}) => best = NoPeer
       /\ best # NoPeer => best \in withChunk \cup withFile

\* one peer is recorded for chunk 0, only the other for the file, and chunk 1
\* has no peer of its own
ChunkSetAndFileSetDiffer ==
  LET file_hash == calculate_file_hash(SmallFile)
  IN /\ get_peers_with_chunk(PM, file_hash, 0) = {"A"}
     /\ get_peers_with_chunk(PM, file_hash, 1) = {}
     /\ get_peers_with_file(PM, file_hash) = {"C"}
     /\ get_best_peer_for_chunk(PM, file_hash, 0, "C") = "A"
     /\ get_best_peer_for_chunk(PM, file_hash, 1, "A") = "C"

\* ----------------------------------------------- who a session belongs to
IsHandshake(line) ==
  /\ JsonValid(line)
  /\ {"type", "peer_id", "payload"} \subseteq DOMAIN json_loads(line)
  /\ json_loads(line).type = "handshake"

\* C32: a session has a remote identity, and the peer is in the session
\* table with this session, only after a handshake frame of the peer was
\* handled on it; frames of other types that arrive before the handshake
\* attach nothing.
AttachedOnlyByHandshake ==
  \A s \in DOMAIN protocols :
    ( \/ protocols[s].remote_peer_id # NoPeer
      \/ \E peer_id \in DOMAIN peers : peers[peer_id] = s ) =>
      \E k \in DOMAIN protocols[s].handled : IsHandshake(protocols[s].handled[k])

\* C33: a session writes its handshake when the transport is attached, and
\* the handshake of the peer makes it write one only if it has written none
\* yet: a session, which has written its handshake at open, writes one
\* handshake in all.
OneHandshakePerSession ==
  \A s \in DOMAIN protocols : protocols[s].handshakes_sent = 1

\* C34: a file_request frame for a digest the node shares from its disk is
\* answered on the same session with one file_announce frame that carries
\* the manifest of the file, and with no file_chunk frame.
FileRequestReannounces ==
  [][\A s \in Sessions :
       ( /\ calculate_file_hash(HelloFile) \in DOMAIN shared_files
         /\ "filepath" \in DOMAIN shared_files[calculate_file_hash(HelloFile)]
         /\ DataReceived(s, Text(FileRequestFrame) \o <<Newline>>) ) =>
         /\ Len(protocols'[s].written) = Len(protocols[s].written) + 1
         /\ LET answer == protocols'[s].written[Len(protocols'[s].written)]
            IN /\ answer.type = "file_announce"
               /\ answer.payload.file_hash = calculate_file_hash(HelloFile)]_vars

\* -------------------------------------------- the bytes of a shared file
\* A file as its bytes: a sequence of runs of `count` bytes of one value.
\* (Elsewhere a file is the sequence of its chunks, each of CHUNK_SIZE bytes.)
RECURSIVE st_size(_)
st_size(runs) ==
  IF runs = << >> THEN 0 ELSE Head(runs).count + st_size(Tail(runs))

Max(a, b) == IF a > b THEN a ELSE b

\* the bytes [from, to) of a file, as far as the file reaches
RECURSIVE Slice(_, _, _)
Slice(runs, from, to) ==
  IF runs = << >> \/ to <= 0 THEN << >>
  ELSE LET run == Head(runs)
           lo == Max(from, 0)
           hi == Min(to, run.count)
           rest == Slice(Tail(runs), from - run.count, to - run.count)
       IN IF lo < hi
          THEN <<[byte |-> run.byte, count |-> hi - lo]>> \o rest
          ELSE rest

\* total_chunks that is one more than the whole chunks of the file
total_chunks_plus_one(file_size) == file_size \div CHUNK_SIZE + 1

\* add_shared_file: total_chunks = (file_size + CHUNK_SIZE - 1) // CHUNK_SIZE
total_chunks_of(file_size) == (file_size + CHUNK_SIZE - 1) \div CHUNK_SIZE

\* the loop of calculate_chunk_hashes: f.read(CHUNK_SIZE) from the position
\* the last read left, total_chunks times
RECURSIVE ReadChunkHashes(_, _, _)
ReadChunkHashes(runs, position, remaining) ==
  IF remaining = 0 THEN << >>
  ELSE LET chunk_data == Slice(runs, position, position + CHUNK_SIZE)
       IN <<Sha256(chunk_data)>>
            \o ReadChunkHashes(runs, position + st_size(chunk_data), remaining - 1)

\* FileManager.add_shared_file on a file given by its bytes; the path is
\* <<directory, name>>
add_shared_file_of_bytes(fm, filepath) ==
  IF filepath \notin DOMAIN fm.disk
  THEN [fm |-> fm, ok |-> FALSE, metadata |-> << >>]
  ELSE LET runs == fm.disk[filepath]
           file_size == st_size(runs)
           total_chunks == total_chunks_of(file_size)
           metadata == [file_hash |-> Sha256(runs),
                        filename |-> filepath[2],
                        file_size |-> file_size,
                        chunk_size |-> CHUNK_SIZE,
                        total_chunks |-> total_chunks,
                        piece_hashes |-> ReadChunkHashes(runs, 0, total_chunks),
                        filepath |-> filepath]
       IN [fm |-> [fm EXCEPT !.shared_files = Put(@, metadata.file_hash, metadata),
                             !.file_metadata = Put(@, metadata.file_hash, metadata)],
           ok |-> TRUE,
           metadata |-> metadata]

\* The sizes of the files: empty, one byte, one byte less than, exactly and
\* one byte more than one chunk and two chunks.
Sizes ==
  {0, 1, CHUNK_SIZE - 1, CHUNK_SIZE, CHUNK_SIZE + 1,
   2 * CHUNK_SIZE - 1, 2 * CHUNK_SIZE, 2 * CHUNK_SIZE + 1}

\* the bytes change every `stripe` bytes: at the chunk boundaries, or at
\* places that fall inside the chunks
Stripes == {CHUNK_SIZE, CHUNK_SIZE \div 2 + 1}

Striped(size, stripe) ==
  [k \in 1..((size + stripe - 1) \div stripe) |->
     [byte |-> k,
      count |-> IF k * stripe <= size THEN stripe ELSE size - (k - 1) * stripe]]

BytesPath == <<"shared", "bytes.bin">>

\* the user writes the file, or writes it anew
WriteFile(runs) ==
  /\ disk' = Put(disk, BytesPath, runs)
  /\ UNCHANGED <<shared_files, downloading_files, file_metadata, pmVars,
                 sessVars, remote, dl, stall, share_calls>>

AddSharedFileOfBytes(filepath) ==
  /\ filepath \in DOMAIN disk
  /\ Cardinality(DOMAIN shared_files \cup {Sha256(disk[filepath])}) <= MaxRecords
  /\ SetFM(add_shared_file_of_bytes(FM, filepath).fm)
  /\ UNCHANGED <<pmVars, sessVars, remote, dl, stall, share_calls>>

BytesNext ==
  \/ \E size \in Sizes : \E stripe \in Stripes : WriteFile(Striped(size, stripe))
  \/ AddSharedFileOfBytes(BytesPath)

BytesSpec == StoreInit /\ [][BytesNext]_vars

\* the least number of chunks of chunk_size bytes that hold file_size bytes
Ceil(file_size, chunk_size) ==
  CHOOSE n \in 0..(file_size \div chunk_size + 1) :
    n * chunk_size >= file_size /\ (n = 0 \/ (n - 1) * chunk_size < file_size)

\* C35: for a file of any size, a multiple of the chunk size or not, the
\* manifest add_shared_file makes has total_chunks = ceil(file_size /
\* chunk_size) and as many piece_hashes; entry i is the digest of the bytes
\* [i * chunk_size, min((i + 1) * chunk_size, file_size)) of the file; every
\* chunk before the last has chunk_size bytes and the last has at least one.
ManifestChunksTheFile ==
  [][AddSharedFileOfBytes(BytesPath) =>
       LET runs == disk[BytesPath]
           metadata == shared_files'[Sha256(runs)]
           piece(i) == Slice(runs, i * metadata.chunk_size,
                             Min((i + 1) * metadata.chunk_size, metadata.file_size))
       IN /\ metadata.file_size = st_size(runs)
          /\ metadata.total_chunks = Ceil(metadata.file_size, metadata.chunk_size)
          /\ Len(metadata.piece_hashes) = metadata.total_chunks
          /\ \A i \in 0..(metadata.total_chunks - 1) :
               /\ metadata.piece_hashes[i + 1] = Sha256(piece(i))
               /\ st_size(piece(i)) =
                    IF i < metadata.total_chunks - 1 THEN metadata.chunk_size
                    ELSE metadata.file_size - i * metadata.chunk_size
               /\ st_size(piece(i)) \in 1..metadata.chunk_size]_vars

\* manifests of a file of exactly two chunks and of a file one byte longer
\* are in the registry: two and three piece hashes, the third of one byte
ExactAndOneMore ==
  LET exact == Striped(2 * CHUNK_SIZE, CHUNK_SIZE \div 2 + 1)
      longer == Striped(2 * CHUNK_SIZE + 1, CHUNK_SIZE)
  IN /\ Sha256(exact) \in DOMAIN shared_files
     /\ Sha256(longer) \in DOMAIN shared_files
     /\ shared_files[Sha256(exact)].total_chunks = 2
     /\ Len(shared_files[Sha256(exact)].piece_hashes) = 2
     /\ shared_files[Sha256(longer)].total_chunks = 3
     /\ shared_files[Sha256(longer)].piece_hashes[3] = Sha256(<<[byte |-> 3, count |-> 1]>>)

\* ------------------------------------------------- serving a shared file
\* The user shares hello.txt with share_file; a peer connects and sends
\* chunk_requests.
ServeNext ==
  \/ CreateFile(HelloFile)
  \/ ShareFile(SourcePath(HelloFile))
  \/ AcceptOnce(FramePeer)
  \/ \E s \in Sessions : \E request \in ChunkRequests :
       /\ s \in DOMAIN protocols
       /\ Len(protocols[s].handled) < MaxFrames
       /\ DataReceived(s, Text(Frame("chunk_request", request)) \o <<Newline>>)

ServeSpec == FrameInit /\ [][ServeNext]_vars

\* C36: after share_file(path) has succeeded, the record of the file's
\* digest in the registry holds the path, and a chunk_request for an index
\* below total_chunks is answered with the file_chunk frame of that chunk.
SharedFileIsServed ==
  /\ [](Get(share_calls, SourcePath(HelloFile), 0) > 0 =>
          /\ calculate_file_hash(HelloFile) \in DOMAIN shared_files
          /\ "filepath" \in DOMAIN shared_files[calculate_file_hash(HelloFile)]
          /\ shared_files[calculate_file_hash(HelloFile)].filepath
               = SourcePath(HelloFile))
  /\ [][\A s \in Sessions : \A chunk_index \in 0..(Len(HelloFile) - 1) :
          LET request == [file_hash |-> calculate_file_hash(HelloFile),
                          chunk_index |-> chunk_index]
          IN ( /\ Get(share_calls, SourcePath(HelloFile), 0) > 0
               /\ DataReceived(s, Text(Frame("chunk_request", request)) \o <<Newline>>) ) =>
               protocols'[s].written =
                 Append(protocols[s].written,
                        [type |-> "file_chunk",
                         payload |-> [file_hash |-> request.file_hash,
                                      chunk_index |-> chunk_index,
                                      data |-> B64Encode(HelloFile[chunk_index + 1]),
                                      chunk_hash |-> Sha256(HelloFile[chunk_index + 1])]])]_vars

\* --------------------------------------------- the peer_id field of a frame
\* One inbound session of peer A, on which frames arrive whose peer_id field
\* names A or another identifier; the session may be lost.
FrameFrom(peer_id, type, payload) ==
  [type |-> type, peer_id |-> peer_id, payload |-> payload]

NamedLines ==
  UNION {{Text(FrameFrom(peer_id, "handshake",
                         [files |-> {[k \in RequiredFields |-> WireManifest(SmallFile)[k]]}])),
          Text(FrameFrom(peer_id, "file_announce", WireManifest(HelloFile))),
          Text(FrameFrom(peer_id, "ping", EmptyDict))} : peer_id \in Peers}

NamedNext ==
  \/ AcceptOnce(FramePeer)
  \/ \E s \in Sessions : ConnectionLost(s)
  \/ \E s \in Sessions : \E line \in NamedLines :
       /\ s \in DOMAIN protocols
       /\ Len(protocols[s].handled) < MaxFrames
       /\ DataReceived(s, line \o <<Newline>>)

NamedSpec == FrameInit /\ [][NamedNext]_vars

\* C37: a frame handled on a session adds nobody to the file-availability
\* map but the remote peer the session is registered for, whatever peer_id
\* the frame carries; so every identifier in the map is the remote peer of a
\* session that has not been lost.
AvailabilityOfSessionPeer ==
  /\ [][\A s \in Sessions : \A line \in NamedLines :
          DataReceived(s, line \o <<Newline>>) =>
            \A file_hash \in DOMAIN file_availability' :
              file_availability'[file_hash] \ Get(file_availability, file_hash, {})
                \subseteq {protocols'[s].remote_peer_id}]_vars
  /\ [](\A file_hash \in DOMAIN file_availability :
          \A peer_id \in file_availability[file_hash] :
            \E s \in DOMAIN protocols :
              Live(s) /\ protocols[s].remote_peer_id = peer_id)

\* ------------------------------------------------- the wait of a poll cycle
\* the sleep that ends an iteration of _download_chunks: 5 s when
\* requested_count is 0, 500 ms otherwise
Wait(requested_count) == IF requested_count = 0 THEN "long" ELSE "short"

\* C38: a poll cycle requests only indices among the first 10 of the
\* missing list; its requested_count is the number of chunk_request frames
\* written in the cycle; and its wait is the long one exactly when no
\* chunk_request was written in it.
CountIsFramesWritten ==
  [][\A first \in Peers :
       LET missing_chunks == get_missing_chunks(FM, dl.file_hash)
           considered == FirstChunks(missing_chunks)
           done == RequestChunks([ss |-> SS, requested_count |-> 0], PM,
                                 dl.file_hash, considered, first)
           written == QueuedOn(outQ') - QueuedOn(outQ)
       IN ( /\ dl.pc = "running"
            /\ missing_chunks # << >>
            /\ DownloadChunks
            /\ SS' = done.ss ) =>
            /\ Len(considered) <= MaxPerCycle
            /\ \A s \in DOMAIN sent : \A key \in DOMAIN sent'[s] :
                 Get(sent'[s], key, 0) # Get(sent[s], key, 0) =>
                   \E i \in 1..Len(considered) : key = RetryKey(dl.file_hash, considered[i])
            /\ done.requested_count = written
            /\ (Wait(done.requested_count) = "long") <=> (written = 0)]_vars

\* ------------------------------------------- a download that becomes a share
\* The node downloads the two-chunk file from A.  After the download is
\* finalized peer C, which has no file to offer, connects, shakes hands and
\* asks for chunks of the file.
PairHash == calculate_file_hash(PairFile)

LaterLines ==
  {Text(FrameFrom("C", "handshake", [files |-> {}]))}
    \cup {Text(FrameFrom("C", "chunk_request",
                         [file_hash |-> PairHash, chunk_index |-> chunk_index])) :
            chunk_index \in 0..(Len(PairFile) - 1)}

AcceptLater ==
  /\ Completed(PairFile)
  /\ \A s \in DOMAIN protocols : protocols[s].host # "C"
  /\ AcceptConnection("C")

\* the session to A
ToSource(s) == s \in DOMAIN protocols /\ protocols[s].host = "A"

PromoteNext ==
  \/ ConnectOnce("A")
  \/ \E s \in Sessions : ToSource(s) /\ ReceiveHandshake(s)
  \/ \E s \in Sessions : ToSource(s) /\ ReceiveChunkResponse(s)
  \/ DownloadFile(PairHash)
  \/ DownloadChunks /\ UNCHANGED stall
  \/ AcceptLater
  \/ \E s \in Sessions : \E line \in LaterLines :
       /\ s \in DOMAIN protocols
       /\ protocols[s].host = "C"
       /\ Len(protocols[s].handled) < MaxFrames
       /\ DataReceived(s, line \o <<Newline>>)

PromoteSpec == WireInit /\ [][PromoteNext]_vars

\* the step renames the temp file of the download to its final path
Finalizes ==
  /\ PairHash \in DOMAIN downloading_files
  /\ TempPath(Filename(PairFile)) \in DOMAIN disk
  /\ TempPath(Filename(PairFile)) \notin DOMAIN disk'
  /\ FinalPath(Filename(PairFile)) \in DOMAIN disk'

\* C39: the step that finalizes the download of D removes its download
\* state and leaves a record of D in shared_files whose path is the final
\* path, where the file now is; from then on the record and the file stay,
\* every chunk_request for an index of D is answered with the file_chunk
\* frame of that chunk, and every handshake the node writes lists D.
FinalizedIsShared ==
  /\ [][Finalizes =>
          /\ PairHash \notin DOMAIN downloading_files'
          /\ Completed(PairFile)']_vars
  /\ [][Completed(PairFile) => Completed(PairFile)']_vars
  /\ [][\A s \in Sessions : \A chunk_index \in 0..(Len(PairFile) - 1) :
          ( /\ Completed(PairFile)
            /\ DataReceived(s, Text(FrameFrom("C", "chunk_request",
                                 [file_hash |-> PairHash,
                                  chunk_index |-> chunk_index])) \o <<Newline>>) ) =>
            protocols'[s].written =
              Append(protocols[s].written,
                     [type |-> "file_chunk",
                      payload |-> [file_hash |-> PairHash,
                                   chunk_index |-> chunk_index,
                                   data |-> B64Encode(PairFile[chunk_index + 1]),
                                   chunk_hash |-> Sha256(PairFile[chunk_index + 1])]])]_vars
  /\ [][\A s \in Sessions :
          ( /\ Completed(PairFile)
            /\ s \in DOMAIN protocols'
            /\ \/ s \notin DOMAIN protocols
               \/ protocols'[s].handshakes_sent > protocols[s].handshakes_sent ) =>
            \E f \in get_available_files(shared_files') :
              /\ f.file_hash = PairHash
              /\ f.total_chunks = Len(PairFile)]_vars

\* the download is finalized and its state is gone; C, which connected
\* afterwards, got the node's second handshake and the second chunk of the file
ServedAfterDownload ==
  /\ Completed(PairFile)
  /\ PairHash \notin DOMAIN downloading_files
  /\ \E s \in DOMAIN protocols :
       /\ protocols[s].host = "C"
       /\ protocols[s].handshakes_sent = 2
       /\ \E k \in DOMAIN protocols[s].written :
            /\ protocols[s].written[k].type = "file_chunk"
            /\ protocols[s].written[k].payload.chunk_index = 1
            /\ protocols[s].written[k].payload.data = B64Encode(PairFile[2])

\* ------------------------------------- the order of the peers in a set
\* The availability sets as CPython keeps them.  A set of up to four strings
\* is a table of SetSlots slots; add puts a new key into the slot its hash
\* selects or, when that slot is taken, into the next slot of the probe
\* sequence of the hash; list(set) reads the table in slot order.  The hash
\* of a string differs from process to process (PYTHONHASHSEED): in this
\* specification remote[peer_id].hash is <<slot, next slot>> of the
\* identifier in the node's process, any two different slots.
EmptyTable == [i \in 0..(SetSlots - 1) |-> NoPeer]

\* set.add(key); with two peer ids at most one slot is taken by another key
set_add(table, key, hash) ==
  IF \E i \in DOMAIN table : table[i] = key THEN table
  ELSE IF table[hash[1]] = NoPeer THEN [table EXCEPT ![hash[1]] = key]
  ELSE [table EXCEPT ![hash[2]] = key]

IsPeer(key) == key # NoPeer

\* list(a set)
list_of_set(table) == SelectSeq([k \in 1..SetSlots |-> table[k - 1]], IsPeer)

\* PeerManager.add_peer_file on the tables
add_peer_file_in_order(pm, hashes, peer_id, file_hash) ==
  [pm EXCEPT
     !.peer_files = Put(@, peer_id, Get(@, peer_id, {}) \cup {file_hash}),
     !.file_availability =
        Put(@, file_hash, set_add(Get(@, file_hash, EmptyTable), peer_id,
                                  hashes[peer_id].hash))]

\* PeerManager.add_peer_chunk on the tables
add_peer_chunk_in_order(pm, hashes, peer_id, file_hash, chunk_index) ==
  [pm EXCEPT !.chunk_availability =
     Put(@, <<file_hash, chunk_index>>,
         set_add(Get(@, <<file_hash, chunk_index>>, EmptyTable), peer_id,
                 hashes[peer_id].hash))]

\* PeerManager.get_best_peer_for_chunk on the tables: peers[0]
get_best_peer_for_chunk_in_order(pm, file_hash, chunk_index) ==
  LET withChunk ==
        list_of_set(Get(pm.chunk_availability, <<file_hash, chunk_index>>, EmptyTable))
      found == IF withChunk # << >> THEN withChunk
               ELSE list_of_set(Get(pm.file_availability, file_hash, EmptyTable))
  IN IF found # << >> THEN found[1] ELSE NoPeer

\* the record operations: peer P has the file, peer P has chunk 0 of it
RecordOps ==
  {[op |-> op, peer_id |-> peer_id] : op \in {"file", "chunk"}, peer_id \in Peers}

Record(pm, hashes, op) ==
  IF op.op = "file"
  THEN add_peer_file_in_order(pm, hashes, op.peer_id, calculate_file_hash(SmallFile))
  ELSE add_peer_chunk_in_order(pm, hashes, op.peer_id, calculate_file_hash(SmallFile), 0)

HashDraws ==
  {[hash |-> <<slot, next>>] :
     slot \in 0..(SetSlots - 1), next \in 0..(SetSlots - 1)} \
  {[hash |-> <<slot, slot>>] : slot \in 0..(SetSlots - 1)}

OrderInit ==
  /\ NodeInit
  /\ remote \in [Peers -> HashDraws]

RecordAvailability(op) ==
  /\ SetPM(Record(PM, remote, op))
  /\ UNCHANGED <<fmVars, sessVars, remote, dl, stall, share_calls>>

OrderNext == \E op \in RecordOps : RecordAvailability(op)

OrderSpec == OrderInit /\ [][OrderNext]_vars

\* the availability maps as dicts of sets, which is how == compares them
AsSets(pm) ==
  [file_availability |->
     [k \in DOMAIN pm.file_availability |->
        {pm.file_availability[k][i] : i \in 0..(SetSlots - 1)} \ {NoPeer}],
   chunk_availability |->
     [k \in DOMAIN pm.chunk_availability |->
        {pm.chunk_availability[k][i] : i \in 0..(SetSlots - 1)} \ {NoPeer}],
   peer_files |-> pm.peer_files]

\* C40: two record operations applied in either order give the same
\* availability maps, an operation applied twice gives what it gives once,
\* and get_best_peer_for_chunk returns the same peer after either order.
RecordOrderIrrelevant ==
  \A op1 \in RecordOps : \A op2 \in RecordOps :
    LET once == Record(PM, remote, op1)
        forth == Record(once, remote, op2)
        back == Record(Record(PM, remote, op2), remote, op1)
        file_hash == calculate_file_hash(SmallFile)
    IN /\ AsSets(forth) = AsSets(back)
       /\ Record(once, remote, op1) = once
       /\ \A chunk_index \in 0..(NumChunks - 1) :
            get_best_peer_for_chunk_in_order(forth, file_hash, chunk_index)
              = get_best_peer_for_chunk_in_order(back, file_hash, chunk_index)

====
